---- MODULE Spec2Model ----
(***************************************************************************)
(* A model of secondmind (src/secondmind/app.py): the free-text note       *)
(* parser, the SQLite-backed note store and the due-date views.            *)
(*                                                                         *)
(* Representation.  A Python str is a sequence of one-character strings    *)
(* (<<"a", " ", "#">>), so that splitting, stripping and searching are     *)
(* computed character by character.  A nullable column or value (Python    *)
(* None, SQL NULL) is the empty sequence Null, and a present value s is    *)
(* the one-element sequence <<s>>, so that None and "" stay distinct.      *)
(*                                                                         *)
(* State.  notes is the table, seq the last id given out, users_txt the    *)
(* credential file, json_files the export files by user, waiting the calls *)
(* that have read and not yet written, and call the record of the last     *)
(* step of a call.                                                         *)
(***************************************************************************)
EXTENDS Bags, Integers, Sequences, FiniteSets, TLC

VARIABLES raw, parsed, notes, seq, call, users_txt, session_user, pc, json_files,
          waiting

vars == <<raw, parsed, notes, seq, call, users_txt, session_user, pc, json_files,
         waiting>>

Null == <<>>
Some(s) == <<s>>

\* files by name: none; the content of a file, Null when it does not exist;
\* and the files after open(name, "w") and a write of content
NoFiles == <<>>
FileOf(files, name) == IF name \in DOMAIN files THEN Some(files[name]) ELSE Null
WriteFile(files, name, content) ==
    [n \in DOMAIN files \cup {name} |-> IF n = name THEN content ELSE files[n]]

(***************************************************************************)
(* Python str primitives.                                                  *)
(***************************************************************************)

\* A character is a string of length one.  A string of this language can
\* hold every character up to U+00FF except U+0000 and U+0060, and beyond
\* U+00FF the characters of the basic plane whose code point ends in a byte
\* from 80 to FF; the operators on characters below answer for these and
\* have no arm for a string that is not one character.
IsChar(c) == Len(c) = 1

WhitespaceChars ==
    {" ", "\t", "\n", "\r", "\f",
     "", "", "", "", "", "", " ", " "}

\* str.isspace() for one character (the whitespace of str.split()/strip()):
\* the blank, \t, \n, \r, \f, and, written as the characters themselves,
\* \x0b, \x1c to \x1f, \x85, \xa0 and U+1680.  The other whitespace of
\* Python (U+2000 to U+200A, U+2028, U+2029, U+202F, U+205F, U+3000) is not
\* among the characters a string can hold.
IsSpace(c) == CASE IsChar(c) -> c \in WhitespaceChars

\* the characters U+0001 to U+00FF in the order of their code points, in
\* four runs around U+0060, which cannot be written in a string
Controls ==
    <<"", "", "", "", "", "", "", "", "\t", "\n", "", "\f", "\r", "", "", "", "",
      "", "", "", "", "", "", "", "", "", "", "", "", "", "">>

AsciiFrom32 ==
    <<" ", "!", "\"", "#", "$", "%", "&", "'", "(", ")", "*", "+",
      ",", "-", ".", "/", "0", "1", "2", "3", "4", "5", "6", "7",
      "8", "9", ":", ";", "<", "=", ">", "?", "@", "A", "B", "C",
      "D", "E", "F", "G", "H", "I", "J", "K", "L", "M", "N", "O",
      "P", "Q", "R", "S", "T", "U", "V", "W", "X", "Y", "Z", "[",
      "\\", "]", "^", "_">>

AsciiFrom97 ==
    <<"a", "b", "c", "d", "e", "f", "g", "h", "i", "j", "k", "l",
      "m", "n", "o", "p", "q", "r", "s", "t", "u", "v", "w", "x",
      "y", "z", "{", "|", "}", "~", "">>

Latin1From128 ==
    <<"", "", "", "", "", "", "", "", "", "", "", "", "", "", "", "", "", "",
      "", "", "", "", "", "", "", "", "", "", "", "", "", "", " ", "¡", "¢", "£",
      "¤", "¥", "¦", "§", "¨", "©", "ª", "«", "¬", "­", "®", "¯", "°", "±", "²", "³", "´", "µ",
      "¶", "·", "¸", "¹", "º", "»", "¼", "½", "¾", "¿", "À", "Á", "Â", "Ã", "Ä", "Å", "Æ", "Ç",
      "È", "É", "Ê", "Ë", "Ì", "Í", "Î", "Ï", "Ð", "Ñ", "Ò", "Ó", "Ô", "Õ", "Ö", "×", "Ø", "Ù",
      "Ú", "Û", "Ü", "Ý", "Þ", "ß", "à", "á", "â", "ã", "ä", "å", "æ", "ç", "è", "é", "ê", "ë",
      "ì", "í", "î", "ï", "ð", "ñ", "ò", "ó", "ô", "õ", "ö", "÷", "ø", "ù", "ú", "û", "ü", "ý",
      "þ", "ÿ">>

\* ord(c) for a character up to U+00FF
CodePoint(c) ==
    CASE IsChar(c) /\ (\E i \in 1..31 : Controls[i] = c) ->
             CHOOSE i \in 1..31 : Controls[i] = c
      [] IsChar(c) /\ (\E i \in 1..64 : AsciiFrom32[i] = c) ->
             31 + (CHOOSE i \in 1..64 : AsciiFrom32[i] = c)
      [] IsChar(c) /\ (\E i \in 1..31 : AsciiFrom97[i] = c) ->
             96 + (CHOOSE i \in 1..31 : AsciiFrom97[i] = c)
      [] IsChar(c) /\ (\E i \in 1..128 : Latin1From128[i] = c) ->
             127 + (CHOOSE i \in 1..128 : Latin1From128[i] = c)

HexDigits == <<"0", "1", "2", "3", "4", "5", "6", "7", "8", "9", "a", "b", "c", "d", "e", "f">>

\* "%04x" % n
Hex16(n) ==
    <<HexDigits[(n \div 4096) + 1], HexDigits[((n \div 256) % 16) + 1],
      HexDigits[((n \div 16) % 16) + 1], HexDigits[(n % 16) + 1]>>

\* s.startswith(p)
StartsWith(s, p) == Len(s) >= Len(p) /\ SubSeq(s, 1, Len(p)) = p

\* s.find(sub) scanning from index i: the lowest index >= i, 0 when absent
RECURSIVE FindFrom(_, _, _)
FindFrom(s, sub, i) ==
    IF i + Len(sub) - 1 > Len(s) THEN 0
    ELSE IF SubSeq(s, i, i + Len(sub) - 1) = sub THEN i
    ELSE FindFrom(s, sub, i + 1)

\* s.rfind(sub) scanning down from index i: the highest index <= i, 0 when absent
RECURSIVE RFindFrom(_, _, _)
RFindFrom(s, sub, i) ==
    IF i < 1 THEN 0
    ELSE IF SubSeq(s, i, i + Len(sub) - 1) = sub THEN i
    ELSE RFindFrom(s, sub, i - 1)

\* sub in s
Contains(s, sub) == FindFrom(s, sub, 1) # 0

\* s.rsplit(sep, 1) when sep occurs in s: <<head, tail>> around the LAST sep
RSplitOnce(s, sep) ==
    LET i == RFindFrom(s, sep, Len(s) - Len(sep) + 1)
    IN  <<SubSeq(s, 1, i - 1), SubSeq(s, i + Len(sep), Len(s))>>

\* s.split(sep, 1) when sep occurs in s: <<head, tail>> around the FIRST sep
SplitOnce(s, sep) ==
    LET i == FindFrom(s, sep, 1)
    IN  <<SubSeq(s, 1, i - 1), SubSeq(s, i + Len(sep), Len(s))>>

\* s.rstrip(chars): drop every trailing character that is in chars
RECURSIVE RStripChars(_, _)
RStripChars(s, chars) ==
    IF s # <<>> /\ s[Len(s)] \in chars
    THEN RStripChars(SubSeq(s, 1, Len(s) - 1), chars)
    ELSE s

\* s.rstrip() and s.lstrip() on whitespace
RECURSIVE RStrip(_)
RStrip(s) ==
    IF s # <<>> /\ IsSpace(s[Len(s)]) THEN RStrip(SubSeq(s, 1, Len(s) - 1)) ELSE s

RECURSIVE LStrip(_)
LStrip(s) ==
    IF s # <<>> /\ IsSpace(s[1]) THEN LStrip(Tail(s)) ELSE s

\* s.strip()
Strip(s) == LStrip(RStrip(s))

\* s.split(): the maximal runs of non-whitespace, scanned left to right;
\* cur is the word being read and acc the words already closed
RECURSIVE SplitScan(_, _, _)
SplitScan(s, cur, acc) ==
    IF s = <<>> THEN (IF cur = <<>> THEN acc ELSE Append(acc, cur))
    ELSE IF IsSpace(s[1])
         THEN SplitScan(Tail(s), <<>>, IF cur = <<>> THEN acc ELSE Append(acc, cur))
         ELSE SplitScan(Tail(s), Append(cur, s[1]), acc)

Split(s) == SplitScan(s, <<>>, <<>>)

\* sep.join(words)
RECURSIVE Join(_, _)
Join(sep, words) ==
    IF words = <<>> THEN <<>>
    ELSE IF Len(words) = 1 THEN words[1]
    ELSE words[1] \o sep \o Join(sep, Tail(words))

(***************************************************************************)
(* parse_note                                                              *)
(***************************************************************************)

\* the literal "[due:"
DueMarker == <<"[", "d", "u", "e", ":">>

IsTag(w) == StartsWith(w, <<"#">>)
NotTag(w) == ~IsTag(w)

\* parse_note with the tags collected from the whole text, marker tail included
parse_note_tags_of_raw(raw_note) ==
    LET has   == Contains(raw_note, DueMarker)
        parts == IF has THEN RSplitOnce(raw_note, DueMarker) ELSE <<raw_note, <<>>>>
        note_part == parts[1]
        due   == IF has THEN Some(Strip(RStripChars(parts[2], {"]"}))) ELSE Null
        clean_note == Join(<<" ">>, SelectSeq(Split(Strip(note_part)), NotTag))
    IN  [note |-> Strip(clean_note), tags |-> SelectSeq(Split(Strip(raw_note)), IsTag),
         due_date |-> due]

\* parse_note splitting at the first marker (str.split in place of str.rsplit)
parse_note_first_marker(raw_note) ==
    LET has   == Contains(raw_note, DueMarker)
        parts == IF has THEN SplitOnce(raw_note, DueMarker) ELSE <<raw_note, <<>>>>
        note_part == parts[1]
        due   == IF has THEN Some(Strip(RStripChars(parts[2], {"]"}))) ELSE Null
        clean_note == Join(<<" ">>, SelectSeq(Split(Strip(note_part)), NotTag))
    IN  [note |-> Strip(clean_note), tags |-> SelectSeq(Split(Strip(note_part)), IsTag),
         due_date |-> due]

\* parse_note rejoining every word of the note part, tags included
parse_note_keeps_tags(raw_note) ==
    LET has   == Contains(raw_note, DueMarker)
        parts == IF has THEN RSplitOnce(raw_note, DueMarker) ELSE <<raw_note, <<>>>>
        note_part == parts[1]
        due   == IF has THEN Some(Strip(RStripChars(parts[2], {"]"}))) ELSE Null
        clean_note == Join(<<" ">>, Split(Strip(note_part)))
    IN  [note |-> Strip(clean_note), tags |-> SelectSeq(Split(Strip(note_part)), IsTag),
         due_date |-> due]

\* parse_note with an empty due date in place of None when no marker occurs
parse_note_empty_due(raw_note) ==
    LET has   == Contains(raw_note, DueMarker)
        parts == IF has THEN RSplitOnce(raw_note, DueMarker) ELSE <<raw_note, <<>>>>
        note_part == parts[1]
        due   == Some(Strip(RStripChars(parts[2], {"]"})))
        tag_tokens == SelectSeq(Split(Strip(note_part)), IsTag)
        clean_note == Join(<<" ">>, SelectSeq(Split(Strip(note_part)), NotTag))
    IN  [note |-> Strip(clean_note), tags |-> tag_tokens, due_date |-> due]

\* parse_note(raw_note): the dict {"note", "tags", "due_date"}
parse_note(raw_note) ==
    LET has   == Contains(raw_note, DueMarker)
        parts == IF has THEN RSplitOnce(raw_note, DueMarker) ELSE <<raw_note, <<>>>>
        note_part == parts[1]
        due   == IF has THEN Some(Strip(RStripChars(parts[2], {"]"}))) ELSE Null
        tag_tokens == SelectSeq(Split(Strip(note_part)), IsTag)
        clean_note == Join(<<" ">>, SelectSeq(Split(Strip(note_part)), NotTag))
    IN  [note |-> Strip(clean_note), tags |-> tag_tokens, due_date |-> due]

(***************************************************************************)
(* Inputs of the parser: texts assembled from at most MaxPieces pieces.    *)
(***************************************************************************)
MaxPieces == 5

Pieces == {<<" ">>, <<"\t">>, <<"#">>, <<"a">>, <<"]">>, <<"[">>, DueMarker}

RECURSIVE Flatten(_)
Flatten(ps) == IF ps = <<>> THEN <<>> ELSE ps[1] \o Flatten(Tail(ps))

\* the texts of at most max pieces
RawTexts(max) == UNION {{Flatten(ps) : ps \in [1..n -> Pieces]} : n \in 0..max}

NoCall == [name |-> "none"]

\* the state before the parser runs: a raw text is typed, nothing is stored
InitParse ==
    /\ raw \in RawTexts(MaxPieces)
    /\ parsed = Null
    /\ notes = <<>>
    /\ seq = 0
    /\ call = NoCall
    /\ users_txt = Null
    /\ session_user = Null
    /\ pc = "login_menu"
    /\ json_files = NoFiles
    /\ waiting = EmptyBag

\* parsed = parse_note(raw)
ParseNote ==
    /\ parsed = Null
    /\ parsed' = Some(parse_note(raw))
    /\ UNCHANGED <<raw, notes, seq, call, users_txt, session_user, pc, json_files, waiting>>

NextParse == ParseNote

SpecParse == InitParse /\ [][NextParse]_vars

(***************************************************************************)
(* The note store: the table "notes" of secondmind.db.  notes holds the    *)
(* rows in rowid order and seq is the AUTOINCREMENT counter.  call is the  *)
(* record of the last call: its arguments, the table it found, what it     *)
(* printed or produced, and result, which is what the caller observes (the *)
(* name of the returned value, or of the exception that left the call).    *)
(***************************************************************************)

\* usernames
Users == {"u", "v"}

\* the user whose operations are followed where the other user only adds
\* notes
Actors == {"u"}

\* the tags joined with spaces, as edit_note_by_id joins them
TagStringSpaces(tags) == IF tags # <<>> THEN Some(Join(<<" ">>, tags)) ELSE Null

\* ",".join(tags) if tags else None
TagString(tags) == IF tags # <<>> THEN Some(Join(<<",">>, tags)) ELSE Null

\* SQL "a = b": NULL on either side makes the comparison NULL, which selects nothing
SqlEq(a, b) == a # Null /\ b # Null /\ a = b

\* SQL "a IS b": NULL matches NULL and only NULL
SqlIs(a, b) == a = b

\* rows of SELECT * FROM notes WHERE user = ? AND note = ? AND tags = ? AND due_date IS ?
DuplicateRows(table, user, note, tag_string, due_date) ==
    SelectSeq(table, LAMBDA r : /\ r.user = user
                                /\ r.note = note
                                /\ SqlEq(r.tags, tag_string)
                                /\ SqlIs(r.due_date, due_date))

\* the duplicate query written with the NULL-safe IS for the tags as well
DuplicateRowsNullSafe(table, user, note, tag_string, due_date) ==
    SelectSeq(table, LAMBDA r : /\ r.user = user
                                /\ r.note = note
                                /\ SqlIs(r.tags, tag_string)
                                /\ SqlIs(r.due_date, due_date))

\* INSERT INTO notes (user, note, tags, due_date) VALUES (?, ?, ?, ?)
InsertRow(table, counter, user, note, tag_string, due_date) ==
    Append(table, [id |-> counter + 1, user |-> user, note |-> note,
                   tags |-> tag_string, due_date |-> due_date])

\* what sqlite3.Connection.__exit__ does when the with block of add_note_to_db
\* is left: it commits on the connection the block has already closed, which
\* raises ProgrammingError in place of the value being returned
ExitClosedConnection(returning) == "ProgrammingError"

\* the first statement of add_note_to_db(user, note, tags, due_date): the rows
\* of its duplicate SELECT
add_note_select(table, user, note, tags, due_date) ==
    DuplicateRows(table, user, note, TagString(tags), due_date)

\* the rest of add_note_to_db when the SELECT found no row: the INSERT and the
\* commit on the table as it is by then, the message and the return
add_note_insert(table, counter, user, note, tag_string, due_date) ==
    [notes |-> InsertRow(table, counter, user, note, tag_string, due_date),
     seq |-> counter + 1,
     printed |-> "Note added successfully.",
     result |-> ExitClosedConnection("True")]

\* add_note_to_db(user, note, tags, due_date) on a table that no other
\* process writes meanwhile: the new table and counter, the message printed
\* and the result the caller observes
add_note_to_db(table, counter, user, note, tags, due_date) ==
    IF add_note_select(table, user, note, tags, due_date) # <<>>
    THEN [notes |-> table, seq |-> counter,
          printed |-> "Note already exists",
          result |-> ExitClosedConnection("False")]
    ELSE add_note_insert(table, counter, user, note, TagString(tags), due_date)

\* The SELECT and the INSERT of add_note_to_db are two statements with no
\* transaction around them, so a call that inserts is two steps, and other
\* processes read and write between them.  waiting holds the calls that have
\* read and not yet written.

\* the processes running the program on one database: two terminals
Terminals == {"t1", "t2"}

\* some terminal is not in the middle of a call
Free == BagCardinality(waiting) < Cardinality(Terminals)

\* the waiting calls of one kind, and how many of them there are
Waiting(op) == {e \in BagToSet(waiting) : e.op = op}
Pending(op) == BagCardinality([e \in Waiting(op) |-> waiting[e]])

\* A call reaches the SELECT of add_note_to_db.  rec names the call and its
\* arguments, r is what the call does on the table as it is now, and others
\* are the other waiting calls.  A call that inserts nothing is over in this
\* step.  A call that inserts has run up to its INSERT, which is left waiting
\* with the values it will write; the exception that ends add_note_to_db ends
\* the call, so the row is the only one it writes.
StartCallAmong(others, rec, r) ==
    IF r.notes = notes
    THEN /\ waiting' = others
         /\ call' = rec @@ [before |-> notes, printed |-> r.printed, result |-> r.result]
         /\ UNCHANGED <<raw, parsed, notes, seq, users_txt, session_user, pc, json_files>>
    ELSE LET row == r.notes[Len(r.notes)]
         IN  /\ waiting' = others (+) SetToBag({[op |-> "add", user |-> row.user,
                                                 note |-> row.note, tags |-> row.tags,
                                                 due_date |-> row.due_date, rec |-> rec]})
             /\ call' = rec @@ [before |-> notes, printed |-> "", result |-> "waiting"]
             /\ UNCHANGED <<raw, parsed, notes, seq, users_txt, session_user, pc, json_files>>

StartCall(rec, r) == StartCallAmong(waiting, rec, r)

\* the waiting call e writes its row and ends; before is the table the
\* INSERT found
FinishAdd(e) ==
    LET r == add_note_insert(notes, seq, e.user, e.note, e.tags, e.due_date)
    IN  /\ notes' = r.notes
        /\ seq' = r.seq
        /\ waiting' = waiting (-) SetToBag({e})
        /\ call' = e.rec @@ [before |-> notes, printed |-> r.printed, result |-> r.result]
        /\ UNCHANGED <<raw, parsed, users_txt, session_user, pc, json_files>>

\* a call of add_note_to_db starts
AddNote(user, note, tags, due_date) ==
    StartCall([name |-> "add_note_to_db", user |-> user, note |-> note,
               tags |-> tags, due_date |-> due_date],
              add_note_to_db(notes, seq, user, note, tags, due_date))

\* the rows of every user: SELECT ... FROM notes without the WHERE clause
UserRowsOfAll(table, user) == table

\* rows of SELECT ... FROM notes WHERE user = ?
UserRows(table, user) == SelectSeq(table, LAMBDA r : r.user = user)

\* the fields of s between the separators at the positions seps
Fields(s, seps) ==
    [k \in 1..(Cardinality(seps) + 1) |->
        SubSeq(s,
               IF k = 1 THEN 1
               ELSE 1 + CHOOSE i \in seps : Cardinality({j \in seps : j <= i}) = k - 1,
               IF k = Cardinality(seps) + 1 THEN Len(s)
               ELSE (CHOOSE i \in seps : Cardinality({j \in seps : j <= i}) = k) - 1)]

\* s.split(c) for a one-character separator c
SplitOn(s, c) == Fields(s, {i \in 1..Len(s) : s[i] = c})

\* Python truth value of a nullable str: None and "" are false
Truthy(x) == x # Null /\ x[1] # <<>>

\* the exported list with the leading "#" of every tag removed
RECURSIVE ExportDataNoHash(_)
ExportDataNoHash(rows) ==
    IF rows = <<>> THEN <<>>
    ELSE LET ts == IF Truthy(rows[1].tags) THEN SplitOn(rows[1].tags[1], ",") ELSE <<>>
         IN  <<[note |-> rows[1].note,
                tags |-> [k \in 1..Len(ts) |->
                             IF StartsWith(ts[k], <<"#">>) THEN Tail(ts[k]) ELSE ts[k]],
                due_date |-> rows[1].due_date]>> \o ExportDataNoHash(Tail(rows))

\* the list export_notes_to_json dumps: one object per row
RECURSIVE ExportData(_)
ExportData(rows) ==
    IF rows = <<>> THEN <<>>
    ELSE <<[note |-> rows[1].note,
            tags |-> IF Truthy(rows[1].tags) THEN SplitOn(rows[1].tags[1], ",") ELSE <<>>,
            due_date |-> rows[1].due_date]>> \o ExportData(Tail(rows))

\* A value of a JSON file as json.load returns it: None, a bool, an int, a
\* str, a list, or a dict, which is the sequence of its <<key, value>> pairs
\* in the order of the file, each key once.  A number with a fraction or an
\* exponent is not among the values described here.
JNull == [t |-> "null"]
JBool(b) == [t |-> "bool", v |-> b]
JInt(n) == [t |-> "int", v |-> n]
JStr(text) == [t |-> "str", v |-> text]
JList(values) == [t |-> "list", v |-> values]
JDict(pairs) == [t |-> "dict", v |-> pairs]

\* the keys of an exported object
KeyNote == <<"n", "o", "t", "e">>
KeyTags == <<"t", "a", "g", "s">>
KeyDue == <<"d", "u", "e", "_", "d", "a", "t", "e">>

\* the object export_notes_to_json builds for one row
ExportedObject(item) ==
    JDict(<<<<KeyNote, JStr(item.note)>>,
            <<KeyTags, JList([k \in 1..Len(item.tags) |-> JStr(item.tags[k])])>>,
            <<KeyDue, IF item.due_date = Null THEN JNull ELSE JStr(item.due_date[1])>>>>)

(***************************************************************************)
(* view_due_notes.  A date is a record [y, m, d]; today is the value of    *)
(* datetime.today().date() the call reads from the clock.                  *)
(***************************************************************************)

\* the digits [0-9] of a regular expression
Digits == {"0", "1", "2", "3", "4", "5", "6", "7", "8", "9"}
NonZeroDigits == Digits \ {"0"}

\* the decimal digits of Unicode (str.isdecimal(), \d of a regular
\* expression on str): one row per script, the digits 0 to 9 in order
DecimalRows ==
    <<<<"0", "1", "2", "3", "4", "5", "6", "7", "8", "9">>,
      <<"۰", "۱", "۲", "۳", "۴", "۵", "۶", "۷", "۸", "۹">>,
      <<"߀", "߁", "߂", "߃", "߄", "߅", "߆", "߇", "߈", "߉">>,
      <<"০", "১", "২", "৩", "৪", "৫", "৬", "৭", "৮", "৯">>,
      <<"૦", "૧", "૨", "૩", "૪", "૫", "૬", "૭", "૮", "૯">>,
      <<"௦", "௧", "௨", "௩", "௪", "௫", "௬", "௭", "௮", "௯">>,
      <<"೦", "೧", "೨", "೩", "೪", "೫", "೬", "೭", "೮", "೯">>,
      <<"෦", "෧", "෨", "෩", "෪", "෫", "෬", "෭", "෮", "෯">>,
      <<"໐", "໑", "໒", "໓", "໔", "໕", "໖", "໗", "໘", "໙">>,
      <<"႐", "႑", "႒", "႓", "႔", "႕", "႖", "႗", "႘", "႙">>,
      <<"០", "១", "២", "៣", "៤", "៥", "៦", "៧", "៨", "៩">>,
      <<"᧐", "᧑", "᧒", "᧓", "᧔", "᧕", "᧖", "᧗", "᧘", "᧙">>,
      <<"᪀", "᪁", "᪂", "᪃", "᪄", "᪅", "᪆", "᪇", "᪈", "᪉">>,
      <<"᪐", "᪑", "᪒", "᪓", "᪔", "᪕", "᪖", "᪗", "᪘", "᪙">>,
      <<"᮰", "᮱", "᮲", "᮳", "᮴", "᮵", "᮶", "᮷", "᮸", "᮹">>,
      <<"꣐", "꣑", "꣒", "꣓", "꣔", "꣕", "꣖", "꣗", "꣘", "꣙">>,
      <<"꧐", "꧑", "꧒", "꧓", "꧔", "꧕", "꧖", "꧗", "꧘", "꧙">>,
      <<"꧰", "꧱", "꧲", "꧳", "꧴", "꧵", "꧶", "꧷", "꧸", "꧹">>,
      <<"꯰", "꯱", "꯲", "꯳", "꯴", "꯵", "꯶", "꯷", "꯸", "꯹">>>>

DecimalChars == UNION {{DecimalRows[r][k] : k \in 1..10} : r \in DOMAIN DecimalRows}

\* the characters with str.isdigit() that are no decimal digits: superscripts,
\* subscripts, circled and dotted digits
OtherDigits ==
    {"²", "³", "¹", "᧚", "₀", "₁", "₂", "₃", "₄", "₅", "₆", "₇", "₈", "₉", "⒈", "⒉", "⒊", "⒋",
     "⒌", "⒍", "⒎", "⒏", "⒐", "⓪", "⓵", "⓶", "⓷", "⓸", "⓹", "⓺", "⓻", "⓼", "⓽", "⓿", "➀", "➁",
     "➂", "➃", "➄", "➅", "➆", "➇", "➈", "➊", "➋", "➌", "➍", "➎", "➏", "➐", "➑", "➒"}

\* str.isdecimal() and str.isdigit() for one character or for "", which is
\* no digit
IsDecimal(c) == CASE Len(c) <= 1 -> c \in DecimalChars
IsDigit(c) == CASE Len(c) <= 1 -> c \in DecimalChars \cup OtherDigits

\* the value of each decimal digit: its place in its row, counted from 0
DigitValues ==
    [c \in DecimalChars |->
        (CHOOSE k \in 1..10 : \E r \in DOMAIN DecimalRows : DecimalRows[r][k] = c) - 1]

\* int(c) for a decimal digit c
DigitValue(c) ==
    CASE IsDecimal(c) -> DigitValues[c]
      [] c = " " -> 0   \* int() skips the blank of a day matched as " 9"

\* int(s) for a matched group of up to four characters
RECURSIVE IntOf(_)
IntOf(s) == IF s = <<>> THEN 0 ELSE 10 * IntOf(SubSeq(s, 1, Len(s) - 1)) + DigitValue(s[Len(s)])

\* str(n) for n >= 0
RECURSIVE DecimalText(_)
DecimalText(n) ==
    LET digit == CHOOSE c \in Digits : DigitValue(c) = n % 10
    IN  IF n < 10 THEN <<digit>> ELSE DecimalText(n \div 10) \o <<digit>>

\* str(n)
IntText(n) == IF n < 0 THEN <<"-">> \o DecimalText(0 - n) ELSE DecimalText(n)

\* the character of s at position i, "" past the end
CharAt(s, i) == IF i >= 1 /\ i <= Len(s) THEN s[i] ELSE ""

\* length matched at position i by the directive %Y: \d\d\d\d
MatchYear(s, i) ==
    IF \A k \in 0..3 : IsDecimal(CharAt(s, i + k)) THEN 4 ELSE 0

\* length matched at position i by the directive %m: 1[0-2]|0[1-9]|[1-9],
\* given that the match must be followed by "-"
MatchMonth(s, i) ==
    LET a == CharAt(s, i)
        b == CharAt(s, i + 1)
    IN  IF a = "1" /\ b \in {"0", "1", "2"} /\ CharAt(s, i + 2) = "-" THEN 2
        ELSE IF a = "0" /\ b \in NonZeroDigits /\ CharAt(s, i + 2) = "-" THEN 2
        ELSE IF a \in NonZeroDigits /\ b = "-" THEN 1
        ELSE 0

\* length matched at position i by the directive %d:
\* 3[0-1]|[1-2]\d|0[1-9]|[1-9]| [1-9], the first alternative that matches
MatchDay(s, i) ==
    LET a == CharAt(s, i)
        b == CharAt(s, i + 1)
    IN  IF a = "3" /\ b \in {"0", "1"} THEN 2
        ELSE IF a \in {"1", "2"} /\ IsDecimal(b) THEN 2
        ELSE IF a = "0" /\ b \in NonZeroDigits THEN 2
        ELSE IF a \in NonZeroDigits THEN 1
        ELSE IF a = " " /\ b \in NonZeroDigits THEN 2
        ELSE 0

\* calendar.isleap
IsLeap(y) == y % 4 = 0 /\ (y % 100 # 0 \/ y % 400 = 0)

\* datetime._days_in_month
DaysInMonth(y, m) ==
    IF m = 2 THEN (IF IsLeap(y) THEN 29 ELSE 28)
    ELSE IF m \in {4, 6, 9, 11} THEN 30 ELSE 31

ValueError == [ok |-> FALSE, y |-> 0, m |-> 0, d |-> 0]

\* datetime.strptime(text, "%Y-%m-%d").date(): the date, or ValueError when
\* the text does not match, has characters left over, or names no calendar day
strptime(text) ==
    LET ylen == MatchYear(text, 1)
        mlen == MatchMonth(text, 6)
        dpos == 6 + mlen + 1
        dlen == MatchDay(text, dpos)
        y == IntOf(SubSeq(text, 1, 4))
        m == IntOf(SubSeq(text, 6, 5 + mlen))
        d == IntOf(SubSeq(text, dpos, dpos + dlen - 1))
    IN  IF ylen = 0 \/ CharAt(text, 5) # "-" \/ mlen = 0 \/ dlen = 0 THEN ValueError
        ELSE IF dpos + dlen - 1 # Len(text) THEN ValueError
        ELSE IF y < 1 \/ d > DaysInMonth(y, m) THEN ValueError
        ELSE [ok |-> TRUE, y |-> y, m |-> m, d |-> d]

\* datetime._days_before_year
DaysBeforeYear(y) == (y - 1) * 365 + (y - 1) \div 4 - (y - 1) \div 100 + (y - 1) \div 400

\* datetime._days_before_month
RECURSIVE DaysBeforeMonth(_, _)
DaysBeforeMonth(y, m) ==
    IF m = 1 THEN 0 ELSE DaysBeforeMonth(y, m - 1) + DaysInMonth(y, m - 1)

\* date.toordinal(); dates compare, and timedelta adds, as their ordinals do
ToOrdinal(date) == DaysBeforeYear(date.y) + DaysBeforeMonth(date.y, date.m) + date.d

\* the week window closed one day early
MatchesModeShortWeek(mode, due_date, today) ==
    LET week_later == ToOrdinal(today) + 6
        due == ToOrdinal(due_date)
    IN  \/ mode = "today" /\ due = ToOrdinal(today)
        \/ mode = "overdue" /\ due < ToOrdinal(today)
        \/ mode = "week" /\ ToOrdinal(today) <= due /\ due <= week_later

\* overdue taken to include today
MatchesModeOverdueToday(mode, due_date, today) ==
    LET week_later == ToOrdinal(today) + 7
        due == ToOrdinal(due_date)
    IN  \/ mode = "today" /\ due = ToOrdinal(today)
        \/ mode = "overdue" /\ due <= ToOrdinal(today)
        \/ mode = "week" /\ ToOrdinal(today) <= due /\ due <= week_later

\* the if/elif chain of the loop body: does the row's date match the mode
MatchesMode(mode, due_date, today) ==
    LET week_later == ToOrdinal(today) + 7
        due == ToOrdinal(due_date)
    IN  \/ mode = "today" /\ due = ToOrdinal(today)
        \/ mode = "overdue" /\ due < ToOrdinal(today)
        \/ mode = "week" /\ ToOrdinal(today) <= due /\ due <= week_later

\* the loop with the first malformed date ending it (break for continue)
RECURSIVE FilterDueStopsAtError(_, _, _)
FilterDueStopsAtError(rows, mode, today) ==
    IF rows = <<>> THEN <<>>
    ELSE IF ~Truthy(rows[1].due_date) THEN FilterDueStopsAtError(Tail(rows), mode, today)
    ELSE LET parsed_due == strptime(rows[1].due_date[1])
         IN  IF ~parsed_due.ok THEN <<>>
             ELSE (IF MatchesMode(mode, parsed_due, today) THEN <<rows[1]>> ELSE <<>>)
                      \o FilterDueStopsAtError(Tail(rows), mode, today)

\* the loop putting each match in front of the list (insert(0, row) for append)
RECURSIVE FilterDueNewestFirst(_, _, _)
FilterDueNewestFirst(rows, mode, today) ==
    IF rows = <<>> THEN <<>>
    ELSE IF ~Truthy(rows[1].due_date) THEN FilterDueNewestFirst(Tail(rows), mode, today)
    ELSE LET parsed_due == strptime(rows[1].due_date[1])
         IN  FilterDueNewestFirst(Tail(rows), mode, today) \o
                 (IF parsed_due.ok /\ MatchesMode(mode, parsed_due, today)
                  THEN <<rows[1]>> ELSE <<>>)

\* the loop over the queried rows: the list "filtered"
RECURSIVE FilterDue(_, _, _)
FilterDue(rows, mode, today) ==
    IF rows = <<>> THEN <<>>
    ELSE IF ~Truthy(rows[1].due_date) THEN FilterDue(Tail(rows), mode, today)
    ELSE LET parsed_due == strptime(rows[1].due_date[1])
         IN  (IF parsed_due.ok /\ MatchesMode(mode, parsed_due, today)
              THEN <<rows[1]>> ELSE <<>>) \o FilterDue(Tail(rows), mode, today)

\* rows of SELECT id, note, tags, due_date FROM notes WHERE user = ?
SelectNotes(table, user) ==
    LET rows == UserRows(table, user)
    IN  [i \in 1..Len(rows) |-> [id |-> rows[i].id, note |-> rows[i].note,
                                 tags |-> rows[i].tags, due_date |-> rows[i].due_date]]

\* a call of view_due_notes(user, mode) on the day today; filtered is the list
\* handed to render_notes_table, and printed the message when it is empty
ViewDueNotes(user, mode, today) ==
    LET filtered == FilterDue(SelectNotes(notes, user), mode, today)
    IN  /\ call' = [name |-> "view_due_notes", user |-> user, mode |-> mode,
                    today |-> today, before |-> notes, filtered |-> filtered,
                    printed |-> IF filtered # <<>> THEN "table" ELSE "No notes found for",
                    result |-> "None"]
        /\ UNCHANGED <<raw, parsed, notes, seq, users_txt, session_user, pc, json_files, waiting>>

(***************************************************************************)
(* export_notes_to_json.  json_files holds the files                       *)
(* <user>_notes_export.json by user.  A file is [kind, value, size]: kind  *)
(* "json" with the value json.load returns, or kind "invalid" when         *)
(* json.load rejects the text, and size is the number of bytes.            *)
(***************************************************************************)

\* the characters json.dump writes as they are: U+0020 to U+007E without the
\* quote and the backslash
JsonPlainChars ==
    ({AsciiFrom32[i] : i \in 1..64} \cup {AsciiFrom97[i] : i \in 1..30}) \ {"\"", "\\"}

\* what json.dump writes for one character of a str
JsonEscape(c) ==
    CASE c = "\"" -> <<"\\", "\"">>
      [] c = "\\" -> <<"\\", "\\">>
      [] c = "\n" -> <<"\\", "n">>
      [] c = "\r" -> <<"\\", "r">>
      [] c = "\t" -> <<"\\", "t">>
      [] c = "\f" -> <<"\\", "f">>
      [] c = "" -> <<"\\", "b">>
      [] c \in JsonPlainChars -> <<c>>
      [] OTHER -> <<"\\", "u">> \o Hex16(CodePoint(c))

\* what json.dump writes for a str
RECURSIVE JsonEscaped(_)
JsonEscaped(text) ==
    IF text = <<>> THEN <<>> ELSE JsonEscape(text[1]) \o JsonEscaped(Tail(text))

JsonString(text) == <<"\"">> \o JsonEscaped(text) \o <<"\"">>

\* the blanks in front of a member at the given depth, with indent=4
Indent(depth) == [i \in 1..(4 * depth) |-> " "]

\* json.dumps(x, indent=4): the text of the value x, written at the given
\* depth; JsonMembers writes the members of a list or dict from the k-th on
RECURSIVE JsonDump(_, _), JsonMembers(_, _, _)
JsonDump(x, depth) ==
    CASE x.t = "null" -> <<"n", "u", "l", "l">>
      [] x.t = "bool" -> IF x.v THEN <<"t", "r", "u", "e">> ELSE <<"f", "a", "l", "s", "e">>
      [] x.t = "int"  -> IntText(x.v)
      [] x.t = "str"  -> JsonString(x.v)
      [] x.t = "list" -> IF x.v = <<>> THEN <<"[", "]">>
                         ELSE <<"[">> \o JsonMembers(x, depth + 1, 1)
                                  \o <<"\n">> \o Indent(depth) \o <<"]">>
      [] x.t = "dict" -> IF x.v = <<>> THEN <<"{", "}">>
                         ELSE <<"{">> \o JsonMembers(x, depth + 1, 1)
                                  \o <<"\n">> \o Indent(depth) \o <<"}">>

JsonMembers(x, depth, k) ==
    IF k > Len(x.v) THEN <<>>
    ELSE (IF k > 1 THEN <<",">> ELSE <<>>) \o <<"\n">> \o Indent(depth)
             \o (IF x.t = "dict"
                 THEN JsonString(x.v[k][1]) \o <<":", " ">> \o JsonDump(x.v[k][2], depth)
                 ELSE JsonDump(x.v[k], depth))
             \o JsonMembers(x, depth, k + 1)

\* rows of SELECT note, tags, due_date FROM notes WHERE user = ?
export_select(table, user) ==
    LET rows == UserRows(table, user)
    IN  [i \in 1..Len(rows) |-> [note |-> rows[i].note, tags |-> rows[i].tags,
                                 due_date |-> rows[i].due_date]]

\* the file after open(name, "w"): no bytes
EmptyFile == [kind |-> "invalid", size |-> 0]

\* the file after json.dump(data, f, indent=4) into an empty file, as
\* json.load reads it: a list of objects with the keys note, tags and due_date
ExportedFile(data) ==
    LET value == JList([i \in 1..Len(data) |-> ExportedObject(data[i])])
    IN  [kind |-> "json", value |-> value, size |-> Len(JsonDump(value, 0))]

\* the file after a process that opened it with "w" has written content
\* from the first byte on and closed it.  Bytes that another process wrote
\* past the end of content since the open stay where they are, and json.load
\* rejects a text with anything but whitespace after its value.
Overwritten(file, content) ==
    IF file.size <= content.size THEN content
    ELSE [kind |-> "invalid", size |-> file.size]

\* export_notes_to_json(user) is three steps with no lock on the table or the
\* file between them: the SELECT, the open that empties the file, and the
\* write of the whole text, which leaves the buffer of the file object when
\* the file is closed (the texts here are shorter than that buffer).

\* a call of export_notes_to_json(user) starts: the SELECT; data is the list
\* built from its rows
ExportNotes(user) ==
    LET rows == export_select(notes, user)
    IN  /\ waiting' = waiting (+) SetToBag({[op |-> "export", user |-> user,
                                             rows |-> rows, opened |-> FALSE]})
        /\ call' = [name |-> "export_notes_to_json", user |-> user, stage |-> "select",
                    before |-> notes, rows |-> rows, data |-> ExportData(rows),
                    printed |-> "", result |-> "waiting"]
        /\ UNCHANGED <<raw, parsed, notes, seq, users_txt, session_user, pc, json_files>>

\* the waiting export e opens its file for writing; found is the file as it
\* was
ExportOpen(e) ==
    /\ ~e.opened
    /\ json_files' = WriteFile(json_files, e.user, EmptyFile)
    /\ waiting' = (waiting (-) SetToBag({e})) (+) SetToBag({[e EXCEPT !.opened = TRUE]})
    /\ call' = [name |-> "export_notes_to_json", user |-> e.user, stage |-> "open",
                before |-> notes, rows |-> e.rows, data |-> ExportData(e.rows),
                found |-> FileOf(json_files, e.user),
                printed |-> "", result |-> "waiting"]
    /\ UNCHANGED <<raw, parsed, notes, seq, users_txt, session_user, pc>>

\* the waiting export e writes its list, closes the file and prints its
\* message; found is the file as it was before the write
ExportWrite(e) ==
    /\ e.opened
    /\ json_files' = WriteFile(json_files, e.user,
                               Overwritten(json_files[e.user],
                                           ExportedFile(ExportData(e.rows))))
    /\ waiting' = waiting (-) SetToBag({e})
    /\ call' = [name |-> "export_notes_to_json", user |-> e.user, stage |-> "write",
                before |-> notes, rows |-> e.rows, data |-> ExportData(e.rows),
                found |-> FileOf(json_files, e.user),
                printed |-> "Notes exported to", result |-> "None"]
    /\ UNCHANGED <<raw, parsed, notes, seq, users_txt, session_user, pc>>

(***************************************************************************)
(* Inputs of the store operations.                                         *)
(***************************************************************************)
MaxNotes == 2

NoteTexts == {<<"n">>}

TagLists == {<<>>, <<<<"#", "a">>>>, <<<<"#", "a">>, <<"#", "b">>>>,
             <<<<"#", "b">>, <<"#", "a">>>>, <<<<>>>>, <<<<>>, <<"#", "a">>>>,
             <<<<"#", "a", ",", "b">>>>}

StoreDues == {Null, Some(<<"2", "0", "2", "5">>)}

\* the state after initialize_database() on a fresh file: an empty table
Init ==
    /\ raw = <<>>
    /\ parsed = Null
    /\ notes = <<>>
    /\ seq = 0
    /\ call = NoCall
    /\ users_txt = Null
    /\ session_user = Null
    /\ pc = "login_menu"
    /\ json_files = NoFiles
    /\ waiting = EmptyBag

\* some user starts to add a note at a free terminal, while the table has
\* room; the first user adds every tag list without a due date and the list
\* of two tags with one, the second user one note
StoreAdd ==
    \E u \in Users, n \in NoteTexts, t \in TagLists, d \in StoreDues :
        /\ Free
        /\ Len(notes) + Pending("add") < MaxNotes
        /\ d # Null => t = <<<<"#", "a">>, <<"#", "b">>>>
        /\ u # "u" => t = <<<<"#", "a">>>> /\ d = Null
        /\ AddNote(u, n, t, d)

\* a waiting add writes its row
StoreInsert == \E e \in Waiting("add") : FinishAdd(e)

\* the first user starts to export their notes at a free terminal
StoreExport == Free /\ ExportNotes("u")

\* a waiting export opens its file
StoreExportOpen == \E e \in Waiting("export") : ExportOpen(e)

\* a waiting export writes its file
StoreExportWrite == \E e \in Waiting("export") : ExportWrite(e)

Next == StoreAdd \/ StoreInsert \/ StoreExport \/ StoreExportOpen \/ StoreExportWrite

Spec == Init /\ [][Next]_vars

(***************************************************************************)
(* Inputs of the due-date views.                                           *)
(***************************************************************************)
MaxDueNotes == 2

Modes == {"today", "overdue", "week"}

\* the days on which the views are taken: 2024-02-25 and 2025-12-28
Todays == {[y |-> 2024, m |-> 2, d |-> 25], [y |-> 2025, m |-> 12, d |-> 28]}

DueTexts ==
    {<<"2", "0", "2", "4", "-", "0", "2", "-", "2", "4">>,
     <<"2", "0", "2", "4", "-", "0", "2", "-", "2", "5">>,
     <<"2", "0", "2", "4", "-", "0", "3", "-", "0", "3">>,
     <<"2", "0", "2", "4", "-", "0", "3", "-", "0", "4">>,
     <<"2", "0", "2", "6", "-", "0", "1", "-", "0", "4">>,
     <<"2", "0", "2", "4", "-", "3", "-", "3">>,
     <<"2", "0", "2", "4", "-", "0", "2", "-", " ", "9">>,
     <<"2", "0", "2", "4", "-", "0", "2", "-", "3", "0">>,
     <<"2", "0", "2", "4", "-", "0", "3", "-", "0", "3", "]">>,
     <<"n", "o", "t", "-", "a", "-", "d", "a", "t", "e">>,
     <<>>}

DueInputs == {Null} \cup {Some(t) : t \in DueTexts}

\* the due dates the second user adds: the day of the first view
OtherDueInputs == {Some(<<"2", "0", "2", "4", "-", "0", "2", "-", "2", "5">>)}

\* some user starts to add a note with a due date at a free terminal, while
\* the table has room
DueAdd ==
    \E u \in Users, n \in NoteTexts, d \in DueInputs :
        /\ Free
        /\ Len(notes) + Pending("add") < MaxDueNotes
        /\ u # "u" => d \in OtherDueInputs
        /\ AddNote(u, n, <<>>, d)

\* a waiting add writes its row
DueInsert == StoreInsert

\* some user opens one of the three due views on some day at a free terminal
DueView ==
    \E u \in Users, mode \in Modes, today \in Todays :
        Free /\ ViewDueNotes(u, mode, today)

NextDue == DueAdd \/ DueInsert \/ DueView

SpecDue == Init /\ [][NextDue]_vars

(***************************************************************************)
(* build_note_from_json: the raw text rebuilt from an object of the JSON   *)
(* file.  data is the dict; a due_date of None is Null.                     *)
(***************************************************************************)

\* build_note_from_json(data): f"{note} {tags} {due}".strip()
build_note_from_json(data) ==
    LET note == data.note
        tags == IF data.tags # <<>> THEN Join(<<",">>, data.tags) ELSE <<>>
        due  == IF Truthy(data.due_date)
                THEN DueMarker \o data.due_date[1] \o <<"]">>
                ELSE <<>>
    IN  Strip(note \o <<" ">> \o tags \o <<" ">> \o due)

MaxBuildTags == 2

BuildNotes == {<<>>, <<"n">>, <<"n", " ", "m">>}
BuildTags == {<<>>, <<"a">>, <<"#", "b">>}
BuildTagLists == UNION {[1..n -> BuildTags] : n \in 0..MaxBuildTags}
BuildDues == {Null, Some(<<>>), Some(<<"d">>)}

\* a call of build_note_from_json on one object
BuildNote ==
    \E n \in BuildNotes, ts \in BuildTagLists, d \in BuildDues :
        LET data == [note |-> n, tags |-> ts, due_date |-> d]
        IN  /\ call' = [name |-> "build_note_from_json", data |-> data,
                        result |-> build_note_from_json(data)]
            /\ UNCHANGED <<raw, parsed, notes, seq, users_txt, session_user, pc, json_files, waiting>>

NextBuild == BuildNote

SpecBuild == Init /\ [][NextBuild]_vars

(***************************************************************************)
(* import_txt_to_db.  The legacy file notes_<user>.txt is Null when it     *)
(* does not exist and the sequence of its lines otherwise.                 *)
(***************************************************************************)

\* s.split(sep)[1] when sep occurs in s: the text between the first sep and
\* the next one (the end of s when there is no other)
SplitSecond(s, sep) ==
    LET after == SplitOnce(s, sep)[2]
    IN  IF Contains(after, sep) THEN SplitOnce(after, sep)[1] ELSE after

\* the arguments import_txt_to_db computes from one stripped line
import_txt_fields(line) ==
    LET tags == SelectSeq(Split(line), IsTag)
        note_part == Join(<<" ">>, SelectSeq(Split(line),
                         LAMBDA w : ~IsTag(w) /\ ~StartsWith(w, DueMarker)))
        due_date == IF Contains(line, DueMarker)
                    THEN Some(SplitOn(SplitSecond(line, DueMarker), "]")[1])
                    ELSE Null
    IN  [note |-> Strip(note_part), tags |-> tags, due_date |-> due_date]

\* the loop of import_txt_to_db over the lines still to read: passed lists
\* the calls of add_note_to_db made so far, each with the line it came from;
\* an exception of add_note_to_db leaves the loop and the function
RECURSIVE import_txt_lines(_, _, _, _, _, _)
import_txt_lines(lines, table, counter, user, imported, passed) ==
    IF lines = <<>>
    THEN [notes |-> table, seq |-> counter, passed |-> passed,
          printed |-> "Imported notes", imported |-> imported, result |-> "None"]
    ELSE LET line == Strip(lines[1])
         IN  IF line = <<>>
             THEN import_txt_lines(Tail(lines), table, counter, user, imported, passed)
             ELSE LET a == import_txt_fields(line)
                      r == add_note_to_db(table, counter, user, a.note, a.tags, a.due_date)
                      made == Append(passed, [line |-> line, note |-> a.note,
                                              tags |-> a.tags, due_date |-> a.due_date])
                  IN  IF r.result = "ProgrammingError"
                      THEN [notes |-> r.notes, seq |-> r.seq, passed |-> made,
                            printed |-> r.printed, imported |-> imported,
                            result |-> "ProgrammingError"]
                      ELSE import_txt_lines(Tail(lines), r.notes, r.seq, user,
                                            imported + 1, made)

\* the lines of the file from its first line that is not blank on: the loop
\* of import_txt_to_db reads the lines before it without a statement on the
\* table, and calls add_note_to_db for the first of these
RECURSIVE import_txt_first(_)
import_txt_first(lines) ==
    IF lines = <<>> \/ Strip(lines[1]) # <<>> THEN lines
    ELSE import_txt_first(Tail(lines))

\* import_txt_to_db(user) reading the file notes_file
import_txt_to_db(table, counter, user, notes_file) ==
    IF notes_file = Null
    THEN [notes |-> table, seq |-> counter, passed |-> <<>>,
          printed |-> "No legacy .txt notes found.", imported |-> 0, result |-> "None"]
    ELSE import_txt_lines(notes_file[1], table, counter, user, 0, <<>>)

MaxTxtLines == 1
MaxImportNotes == 2

TxtLines ==
    {<<" ">>,
     <<"a", " ", "#", "b">>,
     <<" ", "a", " ">> \o DueMarker \o <<"x", "]", " ", "#", "b">>,
     <<"a", " ">> \o DueMarker \o <<"x", "]">> \o DueMarker \o <<"y", "]">>,
     DueMarker \o <<" ", "x", " ", "]">>}

TxtFiles == {Null} \cup {Some(ls) : ls \in UNION {[1..n -> TxtLines] : n \in 0..MaxTxtLines}}

(***************************************************************************)
(* import_json_to_db.  The file <user>_notes_export.json is Null when it   *)
(* does not exist; otherwise it is described by what open() and json.load  *)
(* make of it: [kind |-> "undecodable"] when its bytes are not text in the *)
(* encoding of open() and reading raises UnicodeDecodeError, [kind |->     *)
(* "invalid"] when json.load raises JSONDecodeError, and [kind |-> "json", *)
(* value |-> v] when json.load returns the value v.                        *)
(***************************************************************************)

\* bool(x)
JTruthy(x) ==
    CASE x.t = "null" -> FALSE
      [] x.t = "bool" -> x.v
      [] x.t = "int" -> x.v # 0
      [] x.t \in {"str", "list", "dict"} -> x.v # <<>>

\* iter(x) succeeds, and the values it yields: the elements of a list, the
\* keys of a dict, the characters of a str
Iterable(x) == x.t \in {"str", "list", "dict"}

Elements(x) ==
    CASE x.t = "list" -> x.v
      [] x.t = "dict" -> [i \in 1..Len(x.v) |-> JStr(x.v[i][1])]
      [] x.t = "str" -> [i \in 1..Len(x.v) |-> JStr(<<x.v[i]>>)]

\* item.get(key, default) for a dict
Get(item, key, default) ==
    LET at == {i \in 1..Len(item.v) : item.v[i][1] = key}
    IN  IF at = {} THEN default ELSE item.v[CHOOSE i \in at : TRUE][2]

\* sqlite3 binds the value as a parameter, and the value a TEXT column keeps
\* of it or is compared with: a number as its decimal text, True and False as
\* 1 and 0
Bindable(x) == x.t \in {"null", "bool", "int", "str"}

Bound(x) ==
    CASE x.t = "null" -> Null
      [] x.t = "str" -> Some(x.v)
      [] x.t = "int" -> Some(IntText(x.v))
      [] x.t = "bool" -> Some(IF x.v THEN <<"1">> ELSE <<"0">>)

\* add_note_to_db(user, note, tags, due_date) called with values of an
\* import: ",".join(tags) raises TypeError for a true value that is not
\* iterable or yields something other than str, the SELECT raises
\* ProgrammingError for a note or a due date that cannot be bound, and a
\* note of None fails the NOT NULL constraint of the INSERT
add_note_values(table, counter, user, note, tags, due_date) ==
    LET joined == IF JTruthy(tags) /\ Iterable(tags) THEN Elements(tags) ELSE <<>>
    IN  IF JTruthy(tags) /\ (~Iterable(tags) \/ \E i \in 1..Len(joined) : joined[i].t # "str")
        THEN [notes |-> table, seq |-> counter, printed |-> "", result |-> "TypeError"]
        ELSE IF ~Bindable(note) \/ ~Bindable(due_date)
        THEN [notes |-> table, seq |-> counter, printed |-> "", result |-> "ProgrammingError"]
        ELSE IF Bound(note) = Null
        THEN [notes |-> table, seq |-> counter, printed |-> "", result |-> "IntegrityError"]
        ELSE add_note_to_db(table, counter, user, Bound(note)[1],
                            [i \in 1..Len(joined) |-> joined[i].v], Bound(due_date))

\* the loop of import_json_to_db over the items still to read; an exception
\* leaves the loop and the function
RECURSIVE import_json_items(_, _, _, _, _)
import_json_items(items, table, counter, user, imported) ==
    IF items = <<>>
    THEN [notes |-> table, seq |-> counter, printed |-> "", imported |-> imported,
          result |-> "None"]
    ELSE IF items[1].t # "dict"
    THEN [notes |-> table, seq |-> counter, printed |-> "", imported |-> imported,
          result |-> "AttributeError"]
    ELSE LET note == Get(items[1], KeyNote, JStr(<<>>))
             tags == Get(items[1], KeyTags, JList(<<>>))
             due  == Get(items[1], KeyDue, JNull)
         IN  IF ~JTruthy(note)
             THEN import_json_items(Tail(items), table, counter, user, imported)
             ELSE LET r == add_note_values(table, counter, user, note, tags, due)
                  IN  IF r.result \notin {"True", "False"}
                      THEN [notes |-> r.notes, seq |-> r.seq, printed |-> r.printed,
                            imported |-> imported, result |-> r.result]
                      ELSE import_json_items(Tail(items), r.notes, r.seq, user,
                                             imported + 1)

\* import_json_to_db(user) reading the file json_file, on a table that no
\* other process writes meanwhile
import_json_to_db(table, counter, user, json_file) ==
    IF json_file = Null
    THEN [notes |-> table, seq |-> counter, imported |-> 0,
          printed |-> "No exported JSON found to import.", result |-> "None"]
    ELSE IF json_file[1].kind = "undecodable"
    THEN [notes |-> table, seq |-> counter, imported |-> 0,
          printed |-> "", result |-> "UnicodeDecodeError"]
    ELSE IF json_file[1].kind = "invalid"
    THEN [notes |-> table, seq |-> counter, imported |-> 0,
          printed |-> "Invalid JSON format.", result |-> "None"]
    ELSE IF ~Iterable(json_file[1].value)
    THEN [notes |-> table, seq |-> counter, imported |-> 0,
          printed |-> "", result |-> "TypeError"]
    ELSE import_json_items(Elements(json_file[1].value), table, counter, user, 0)

\* the items of the file from the first on that is not an object without a
\* note: the loop of import_json_to_db passes the items before it without a
\* statement on the table
RECURSIVE import_json_first(_)
import_json_first(items) ==
    IF items = <<>> \/ items[1].t # "dict" THEN items
    ELSE IF JTruthy(Get(items[1], KeyNote, JStr(<<>>))) THEN items
    ELSE import_json_first(Tail(items))

\* the arguments of the first call of add_note_to_db that import_txt_to_db
\* reaches reading notes_file, as a list of none or one
import_txt_adds(notes_file) ==
    LET lines == import_txt_first(IF notes_file = Null THEN <<>> ELSE notes_file[1])
    IN  IF lines = <<>> THEN <<>>
        ELSE LET a == import_txt_fields(Strip(lines[1]))
             IN  <<[note |-> JStr(a.note),
                    tags |-> JList([i \in 1..Len(a.tags) |-> JStr(a.tags[i])]),
                    due_date |-> IF a.due_date = Null THEN JNull ELSE JStr(a.due_date[1])]>>

\* the arguments of the first call of add_note_to_db that import_json_to_db
\* reaches reading json_file, as a list of none or one
import_json_adds(json_file) ==
    IF json_file = Null THEN <<>>
    ELSE IF json_file[1].kind # "json" THEN <<>>
    ELSE IF ~Iterable(json_file[1].value) THEN <<>>
    ELSE LET items == import_json_first(Elements(json_file[1].value))
         IN  IF items = <<>> \/ items[1].t # "dict" THEN <<>>
             ELSE <<[note |-> Get(items[1], KeyNote, JStr(<<>>)),
                     tags |-> Get(items[1], KeyTags, JList(<<>>)),
                     due_date |-> Get(items[1], KeyDue, JNull)]>>

\* An import reads its file before it runs a statement on the table, and other
\* processes read and write the table and the files in between.

\* An import has read its file.  rec names the call, adds lists the
\* arguments of the first call of add_note_to_db it reaches, and r is what
\* the import does when it reaches none, which is then over in this step.
\* An import that reaches a call is left waiting in front of the SELECT of
\* add_note_to_db with the arguments it passes.
ReadImport(rec, r, adds) ==
    IF adds = <<>>
    THEN /\ call' = rec @@ [before |-> notes, printed |-> r.printed, result |-> r.result]
         /\ UNCHANGED <<raw, parsed, notes, seq, users_txt, session_user, pc, json_files, waiting>>
    ELSE /\ waiting' = waiting (+) SetToBag({[op |-> "import", user |-> rec.user,
                                              passes |-> adds[1], rec |-> rec]})
         /\ call' = rec @@ [before |-> notes, printed |-> "", result |-> "waiting"]
         /\ UNCHANGED <<raw, parsed, notes, seq, users_txt, session_user, pc, json_files>>

\* what the call of add_note_to_db of the waiting import e does on the table
\* as it is now
import_add(e) ==
    add_note_values(notes, seq, e.user, e.passes.note, e.passes.tags, e.passes.due_date)

\* the waiting import e calls add_note_to_db, which runs its SELECT while
\* room holds when it goes on to insert
ImportAdd(e, room) ==
    /\ import_add(e).notes # notes => room
    /\ StartCallAmong(waiting (-) SetToBag({e}), e.rec, import_add(e))

\* import_txt_to_db(user) reads the file f, and import_json_to_db(user) the
\* file f
ImportTxtNotes(rec, f) ==
    ReadImport(rec, import_txt_to_db(notes, seq, rec.user, f), import_txt_adds(f))

ImportJsonNotes(rec, f) ==
    ReadImport(rec, import_json_to_db(notes, seq, rec.user, f), import_json_adds(f))

MaxJsonItems == 1

\* the items of the lists read here: objects with and without a note, with
\* tags that are a list of str, a list holding a number, or a str, with a
\* note that is a number or a list, with a due date that is a bool; and a
\* number in the place of an object
JsonItems ==
    {JDict(<<<<KeyNote, JStr(<<"k">>)>>, <<KeyTags, JList(<<JStr(<<"#", "x">>)>>)>>,
             <<KeyDue, JNull>>>>),
     JDict(<<<<KeyTags, JList(<<JStr(<<"#", "x">>)>>)>>>>),
     JDict(<<<<KeyNote, JStr(<<"z">>)>>>>),
     JDict(<<<<KeyNote, JStr(<<"k">>)>>, <<KeyTags, JList(<<JInt(1)>>)>>>>),
     JDict(<<<<KeyNote, JInt(5)>>, <<KeyTags, JStr(<<"a", "b">>)>>>>),
     JDict(<<<<KeyNote, JList(<<JStr(<<"a">>)>>)>>>>),
     JDict(<<<<KeyNote, JStr(<<"k">>)>>, <<KeyDue, JBool(TRUE)>>>>),
     JInt(5)}

\* the values read here: lists of these items, an object without keys and
\* one with a key, a str, a number, null
JsonValues ==
    {JList(items) : items \in UNION {[1..n -> JsonItems] : n \in 0..MaxJsonItems}}
        \cup {JDict(<<>>), JDict(<<<<KeyNote, JStr(<<"k">>)>>>>), JStr(<<"a", "b">>),
              JInt(5), JNull}

JsonFiles ==
    {Null, Some([kind |-> "undecodable"]), Some([kind |-> "invalid"])}
        \cup {Some([kind |-> "json", value |-> v]) : v \in JsonValues}

\* a call of import_txt_to_db(user) starts at a free terminal and reads the
\* file f; passed holds the line that was read up to the call of
\* add_note_to_db, with the arguments computed from it
ImportTxt ==
    \E u \in Users, f \in TxtFiles :
        /\ Free
        /\ ImportTxtNotes([name |-> "import_txt_to_db", user |-> u, exists |-> f # Null,
                           passed |-> import_txt_to_db(notes, seq, u, f).passed], f)

\* a call of import_json_to_db(user) starts at a free terminal and reads f at
\* <user>_notes_export.json; kind tells what the file was
ImportJson ==
    \E u \in Actors, f \in JsonFiles :
        /\ Free
        /\ ImportJsonNotes([name |-> "import_json_to_db", user |-> u,
                            kind |-> IF f = Null THEN "missing" ELSE f[1].kind], f)

\* a waiting import calls add_note_to_db, while the table has room for the
\* row
ImportSelect ==
    \E e \in Waiting("import") : ImportAdd(e, seq + Pending("add") < MaxImportNotes)

\* the INSERT of a waiting import
ImportInsert == StoreInsert

NextImport == ImportTxt \/ ImportJson \/ ImportSelect \/ ImportInsert

SpecImport == Init /\ [][NextImport]_vars

(***************************************************************************)
(* edit_note_by_id and delete_note_by_id.  The three answers typed at the  *)
(* prompts of edit_note_by_id are its inputs.                              *)
(***************************************************************************)

\* rows of SELECT ... FROM notes WHERE id = ?, whoever owns the row
IdRowsAnyUser(table, note_id, user) ==
    SelectSeq(table, LAMBDA r : r.id = note_id)

\* rows of SELECT ... FROM notes WHERE id = ? AND user = ?
IdRows(table, note_id, user) ==
    SelectSeq(table, LAMBDA r : r.id = note_id /\ r.user = user)

\* [f"#{tags.strip()}" for tags in new_tags.split(",") if tags.strip()]
RECURSIVE HashTags(_)
HashTags(pieces) ==
    IF pieces = <<>> THEN <<>>
    ELSE (IF Strip(pieces[1]) # <<>> THEN <<<<"#">> \o Strip(pieces[1])>> ELSE <<>>)
             \o HashTags(Tail(pieces))

\* UPDATE notes SET note = ?, tags = ?, due_date = ? WHERE id = ? AND user = ?
UpdateRow(table, note_id, user, final_note, final_tags, final_due) ==
    [i \in 1..Len(table) |->
        IF table[i].id = note_id /\ table[i].user = user
        THEN [id |-> table[i].id, user |-> table[i].user, note |-> final_note,
              tags |-> final_tags, due_date |-> final_due]
        ELSE table[i]]

\* the first part of edit_note_by_id(user, note_id), up to its first prompt:
\* the row the SELECT fetches, as a list of no row or one row
edit_note_select(table, user, note_id) ==
    LET row == IdRows(table, note_id, user)
    IN  [k \in 1..Len(row) |-> [note |-> row[k].note, tags |-> row[k].tags,
                                due_date |-> row[k].due_date]]

\* the second part, once the three answers are typed: the UPDATE on the
\* table as it is by then, with the values computed from the row fetched
\* before the prompts
edit_note_update(table, user, note_id, row, answers) ==
    LET old_note == row.note
        old_tags == row.tags
        old_due  == row.due_date
        new_note == Strip(answers[1])
        new_tags == Strip(answers[2])
        new_due  == Strip(answers[3])
        final_note == IF new_note # <<>> THEN new_note ELSE old_note
        tag_list   == HashTags(SplitOn(new_tags, ","))
        final_tags == IF tag_list # <<>> THEN Some(Join(<<" ">>, tag_list))
                      ELSE IF Truthy(old_tags) THEN old_tags ELSE Some(<<>>)
        final_due  == IF new_due # <<>> THEN Some(new_due) ELSE old_due
    IN  [notes |-> UpdateRow(table, note_id, user, final_note, final_tags, final_due),
         asked |-> 3, printed |-> "Note updated successfully",
         result |-> "None"]

\* edit_note_by_id(user, note_id) with the answers typed at its prompts and
\* no other process at work meanwhile: the new table, the number of prompts
\* shown and the last message printed
edit_note_by_id(table, user, note_id, answers) ==
    LET row == edit_note_select(table, user, note_id)
    IN  IF row = <<>>
        THEN [notes |-> table, asked |-> 0, printed |-> "Note not found.",
              result |-> "None"]
        ELSE edit_note_update(table, user, note_id, row[1], answers)

\* A call of edit_note_by_id is two steps.  Between its SELECT and its
\* UPDATE the process waits at three prompts and holds no lock on the
\* database, so other processes (a second terminal) read and write
\* meanwhile.  The call waits in waiting with the row it fetched.

\* a call of edit_note_by_id(user, note_id) starts: it returns at once when
\* it finds no row, and otherwise shows the note and waits at its first
\* prompt
BeginEdit(user, note_id) ==
    LET row == edit_note_select(notes, user, note_id)
    IN  IF row = <<>>
        THEN /\ call' = [name |-> "edit_note_by_id", user |-> user, note_id |-> note_id,
                         answers |-> <<>>, before |-> notes, asked |-> 0,
                         printed |-> "Note not found.", result |-> "None"]
             /\ UNCHANGED <<raw, parsed, notes, seq, users_txt, session_user, pc, json_files, waiting>>
        ELSE /\ waiting' = waiting (+) SetToBag({[op |-> "edit", user |-> user,
                                                  note_id |-> note_id, row |-> row[1]]})
             /\ call' = [name |-> "edit_note_by_id", user |-> user, note_id |-> note_id,
                         answers |-> <<>>, before |-> notes, asked |-> 1,
                         printed |-> "Current Note", result |-> "waiting"]
             /\ UNCHANGED <<raw, parsed, notes, seq, users_txt, session_user, pc, json_files>>

\* the waiting call e gets its three answers, writes and returns
FinishEdit(e, answers) ==
    LET r == edit_note_update(notes, e.user, e.note_id, e.row, answers)
    IN  /\ notes' = r.notes
        /\ waiting' = waiting (-) SetToBag({e})
        /\ call' = [name |-> "edit_note_by_id", user |-> e.user, note_id |-> e.note_id,
                    answers |-> answers, before |-> notes,
                    asked |-> r.asked, printed |-> r.printed, result |-> r.result]
        /\ UNCHANGED <<raw, parsed, seq, users_txt, session_user, pc, json_files>>

\* DELETE FROM notes WHERE id = ?, whoever owns the row
DeleteRowAnyUser(table, note_id, user) ==
    SelectSeq(table, LAMBDA r : r.id # note_id)

\* DELETE FROM notes WHERE id = ? AND user = ?
DeleteRow(table, note_id, user) ==
    SelectSeq(table, LAMBDA r : ~(r.id = note_id /\ r.user = user))

MaxEditNotes == 2

\* the ids a caller may name: those ever given out and one never given out
EditIds == 1..(MaxEditNotes + 1)

EditAnswers ==
    {<<<<>>, <<>>, <<>>>>,
     <<<<" ", "x", " ">>, <<" ", "a", " ", ",", " ", ",", "b", " ">>, <<"d">>>>}

\* a call of delete_note_by_id(user, note_id)
DeleteNoteById(user, note_id) ==
    /\ notes' = DeleteRow(notes, note_id, user)
    /\ call' = [name |-> "delete_note_by_id", user |-> user, note_id |-> note_id,
                before |-> notes, printed |-> "Deleted note ID", result |-> "None"]
    /\ UNCHANGED <<raw, parsed, seq, users_txt, session_user, pc, json_files, waiting>>

\* some user starts to add a note at a free terminal, while fewer than
\* MaxEditNotes ids are given out or about to be
EditAdd ==
    \E u \in Users, t \in {<<>>, <<<<"#", "a">>>>} :
        /\ Free
        /\ seq + Pending("add") < MaxEditNotes
        /\ AddNote(u, <<"n">>, t, Null)

\* a waiting add writes its row
EditInsert == StoreInsert

\* some user calls edit_note_by_id(user, note_id) at a free terminal
EditNote == \E u \in Users, i \in EditIds : Free /\ BeginEdit(u, i)

\* a waiting call is answered; the answers are what was typed
EditWrite == \E e \in Waiting("edit"), a \in EditAnswers : FinishEdit(e, a)

\* some user calls delete_note_by_id(user, note_id) at a free terminal
DeleteNote == \E u \in Users, i \in EditIds : Free /\ DeleteNoteById(u, i)

NextEdit == EditAdd \/ EditInsert \/ EditNote \/ EditWrite \/ DeleteNote

SpecEdit == Init /\ [][NextEdit]_vars

(***************************************************************************)
(* hashlib.sha256(password.encode()).hexdigest().  A 32-bit word is the    *)
(* pair <<hi, lo>> of its two 16-bit halves, so that no intermediate value *)
(* leaves the range of the integers of the model checker.                  *)
(***************************************************************************)

\* str.encode(): the UTF-8 bytes of a text of characters up to U+00FF
RECURSIVE Utf8(_)
Utf8(s) ==
    IF s = <<>> THEN <<>>
    ELSE LET cp == CodePoint(s[1])
         IN  (IF cp < 128 THEN <<cp>> ELSE <<192 + (cp \div 64), 128 + (cp % 64)>>)
                 \o Utf8(Tail(s))

\* bitwise and, exclusive or, on 16-bit halves
RECURSIVE And16(_, _)
And16(a, b) ==
    IF a = 0 \/ b = 0 THEN 0
    ELSE (a % 2) * (b % 2) + 2 * And16(a \div 2, b \div 2)

RECURSIVE Xor16(_, _)
Xor16(a, b) ==
    IF a = 0 THEN b ELSE IF b = 0 THEN a
    ELSE ((a + b) % 2) + 2 * Xor16(a \div 2, b \div 2)

\* the operations of FIPS 180-4 on words
WordAnd(x, y) == <<And16(x[1], y[1]), And16(x[2], y[2])>>
WordXor(x, y) == <<Xor16(x[1], y[1]), Xor16(x[2], y[2])>>
WordNot(x) == <<65535 - x[1], 65535 - x[2]>>

\* x + y modulo 2^32
WordAdd(x, y) ==
    LET lo == x[2] + y[2]
        hi == x[1] + y[1] + (lo \div 65536)
    IN  <<hi % 65536, lo % 65536>>

\* x rotated right by n bits, 0 < n < 32
RotR(x, n) ==
    LET y == IF n >= 16 THEN <<x[2], x[1]>> ELSE x
        k == n % 16
    IN  IF k = 0 THEN y
        ELSE <<(y[1] \div (2^k)) + (y[2] % (2^k)) * (2^(16 - k)),
               (y[2] \div (2^k)) + (y[1] % (2^k)) * (2^(16 - k))>>

\* x shifted right by n bits, 0 < n < 16
ShR(x, n) ==
    <<x[1] \div (2^n), (x[2] \div (2^n)) + (x[1] % (2^n)) * (2^(16 - n))>>

Ch(x, y, z) == WordXor(WordAnd(x, y), WordAnd(WordNot(x), z))
Maj(x, y, z) == WordXor(WordXor(WordAnd(x, y), WordAnd(x, z)), WordAnd(y, z))
BigSigma0(x) == WordXor(WordXor(RotR(x, 2), RotR(x, 13)), RotR(x, 22))
BigSigma1(x) == WordXor(WordXor(RotR(x, 6), RotR(x, 11)), RotR(x, 25))
SmallSigma0(x) == WordXor(WordXor(RotR(x, 7), RotR(x, 18)), ShR(x, 3))
SmallSigma1(x) == WordXor(WordXor(RotR(x, 17), RotR(x, 19)), ShR(x, 10))

\* the round constants and the initial hash value
Sha256K ==
    <<<<17034, 12184>>, <<28983, 17553>>, <<46528, 64463>>, <<59829, 56229>>,
      <<14678, 49755>>, <<23025, 4593>>, <<37439, 33444>>, <<43804, 24277>>,
      <<55303, 43672>>, <<4739, 23297>>, <<9265, 34238>>, <<21772, 32195>>,
      <<29374, 23924>>, <<32990, 45566>>, <<39900, 1703>>, <<49563, 61812>>,
      <<58523, 27073>>, <<61374, 18310>>, <<4033, 40390>>, <<9228, 41420>>,
      <<11753, 11375>>, <<19060, 33962>>, <<23728, 43484>>, <<30457, 35034>>,
      <<38974, 20818>>, <<43057, 50797>>, <<45059, 10184>>, <<48985, 32711>>,
      <<50912, 3059>>, <<54695, 37191>>, <<1738, 25425>>, <<5161, 10599>>,
      <<10167, 2693>>, <<11803, 8504>>, <<19756, 28156>>, <<21304, 3347>>,
      <<25866, 29524>>, <<30314, 2747>>, <<33218, 51502>>, <<37490, 11397>>,
      <<41663, 59553>>, <<43034, 26187>>, <<49739, 35696>>, <<51052, 20899>>,
      <<53650, 59417>>, <<54937, 1572>>, <<62478, 13701>>, <<4202, 41072>>,
      <<6564, 49430>>, <<7735, 27656>>, <<10056, 30540>>, <<13488, 48309>>,
      <<14620, 3251>>, <<20184, 43594>>, <<23452, 51791>>, <<26670, 28659>>,
      <<29839, 33518>>, <<30885, 25455>>, <<33992, 30740>>, <<36039, 520>>,
      <<37054, 65530>>, <<42064, 27883>>, <<48889, 41975>>, <<50801, 30962>>>>

Sha256H0 ==
    <<<<27145, 58983>>, <<47975, 44677>>, <<15470, 62322>>, <<42319, 62778>>,
      <<20750, 21119>>, <<39685, 26764>>, <<8067, 55723>>, <<23520, 52505>>>>

\* the message followed by the bit 1, zero bits and its length in bits as a
\* 64-bit number, a whole number of 64-byte blocks
Sha256Padded(bytes) ==
    LET bits  == 8 * Len(bytes)
        zeros == (55 - Len(bytes)) % 64
    IN  bytes \o <<128>> \o [i \in 1..zeros |-> 0] \o <<0, 0, 0, 0>>
            \o <<(bits \div 16777216) % 256, (bits \div 65536) % 256,
                 (bits \div 256) % 256, bits % 256>>

\* the sixteen words of the block that starts after byte number at
BlockWords(bytes, at) ==
    [t \in 1..16 |-> <<256 * bytes[at + 4 * t - 3] + bytes[at + 4 * t - 2],
                       256 * bytes[at + 4 * t - 1] + bytes[at + 4 * t]>>]

\* the message schedule grown from the sixteen words of a block
RECURSIVE Schedule(_)
Schedule(w) ==
    IF Len(w) = 64 THEN w
    ELSE LET t == Len(w) + 1
         IN  Schedule(Append(w, WordAdd(WordAdd(SmallSigma1(w[t - 2]), w[t - 7]),
                                        WordAdd(SmallSigma0(w[t - 15]), w[t - 16]))))

\* the working variables v = <<a, b, c, d, e, f, g, h>> after a round that
\* computed t1 and t2
Rotated(v, t1, t2) ==
    <<WordAdd(t1, t2), v[1], v[2], v[3], WordAdd(v[4], t1), v[5], v[6], v[7]>>

\* one round on the working variables
Round(v, wt, kt) ==
    Rotated(v,
            WordAdd(WordAdd(WordAdd(v[8], BigSigma1(v[5])),
                            WordAdd(Ch(v[5], v[6], v[7]), kt)), wt),
            WordAdd(BigSigma0(v[1]), Maj(v[1], v[2], v[3])))

\* the working variables after the 64 rounds; vs lists them round by round
RECURSIVE Rounds(_, _)
Rounds(vs, w) ==
    IF Len(vs) = 65 THEN vs[65]
    ELSE LET t == Len(vs)
         IN  Rounds(Append(vs, Round(vs[t], w[t], Sha256K[t])), w)

\* the hash value h with the working variables v added to it word by word
AddWords(h, v) == [i \in 1..8 |-> WordAdd(h[i], v[i])]

\* the hash value after the blocks from byte number at on
RECURSIVE Blocks(_, _, _)
Blocks(bytes, at, h) ==
    IF at >= Len(bytes) THEN h
    ELSE Blocks(bytes, at + 64,
                AddWords(h, Rounds(<<h>>, Schedule(BlockWords(bytes, at)))))

\* the eight words of a hash value in hexadecimal
RECURSIVE HexWords(_)
HexWords(h) ==
    IF h = <<>> THEN <<>>
    ELSE Hex16(Head(h)[1]) \o Hex16(Head(h)[2]) \o HexWords(Tail(h))

\* hashlib.sha256(bytes).hexdigest()
sha256_hexdigest(bytes) == HexWords(Blocks(Sha256Padded(bytes), 0, Sha256H0))

\* the passwords typed in the actions below, stripped
TypedPasswordTexts == {<<>>, <<"p">>, <<"q">>}

\* their digests as sha256_hexdigest gives them, written out so that no
\* state computes them again
TypedPasswordDigests ==
    {<<<<>>,
       <<"e", "3", "b", "0", "c", "4", "4", "2", "9", "8", "f", "c", "1", "c", "1", "4",
         "9", "a", "f", "b", "f", "4", "c", "8", "9", "9", "6", "f", "b", "9", "2", "4",
         "2", "7", "a", "e", "4", "1", "e", "4", "6", "4", "9", "b", "9", "3", "4", "c",
         "a", "4", "9", "5", "9", "9", "1", "b", "7", "8", "5", "2", "b", "8", "5", "5">>>>,
     <<<<"p">>,
       <<"1", "4", "8", "d", "e", "9", "c", "5", "a", "7", "a", "4", "4", "d", "1", "9",
         "e", "5", "6", "c", "d", "9", "a", "e", "1", "a", "5", "5", "4", "b", "f", "6",
         "7", "8", "4", "7", "a", "f", "b", "0", "c", "5", "8", "f", "6", "e", "1", "2",
         "f", "a", "2", "9", "a", "c", "7", "d", "d", "f", "c", "a", "9", "9", "4", "0">>>>,
     <<<<"q">>,
       <<"8", "e", "3", "5", "c", "2", "c", "d", "3", "b", "f", "6", "6", "4", "1", "b",
         "d", "b", "0", "e", "2", "0", "5", "0", "b", "7", "6", "9", "3", "2", "c", "b",
         "b", "2", "e", "6", "0", "3", "4", "a", "0", "d", "d", "a", "c", "c", "1", "d",
         "9", "b", "e", "a", "8", "2", "a", "6", "b", "a", "5", "7", "f", "7", "c", "f">>>>}

\* the table holds the digests
TypedPasswordDigestsRight ==
    \A d \in TypedPasswordDigests : d[2] = sha256_hexdigest(Utf8(d[1]))

\* hashlib.sha256(password.encode()).hexdigest()
hash_password(password) ==
    IF password \in TypedPasswordTexts
    THEN (CHOOSE d \in TypedPasswordDigests : d[1] = password)[2]
    ELSE sha256_hexdigest(Utf8(password))

(***************************************************************************)
(* register_user.  users_txt is the file users.txt: Null while it does not *)
(* exist, otherwise the sequence of its lines as a reader in text mode     *)
(* finds them, each without the line end.                                  *)
(***************************************************************************)

\* the lines a reader in text mode finds in a written text: "\n", "\r" and
\* "\r\n" all end a line
RECURSIVE FileLines(_)
FileLines(text) ==
    IF \A i \in 1..Len(text) : text[i] \notin {"\r", "\n"}
    THEN IF text = <<>> THEN <<>> ELSE <<text>>
    ELSE LET k == CHOOSE i \in 1..Len(text) :
                      /\ text[i] \in {"\r", "\n"}
                      /\ \A j \in 1..(i - 1) : text[j] \notin {"\r", "\n"}
             ends == IF text[k] = "\r" /\ CharAt(text, k + 1) = "\n" THEN 2 ELSE 1
         IN  <<SubSeq(text, 1, k - 1)>> \o FileLines(SubSeq(text, k + ends, Len(text)))

\* the scan of register_user over the lines of the file: some line starts
\* with username + ":"
UsernameTaken(file, username) ==
    /\ file # Null
    /\ \E i \in 1..Len(file[1]) : StartsWith(file[1][i], username \o <<":">>)

\* the append of register_user: the file, as it is by then, with the text
\* "<username>:<hash>\n" written at its end, which is more than one line
\* when the username holds a line end
register_user_append(file, username, hashed_pw) ==
    Some((IF file = Null THEN <<>> ELSE file[1])
             \o FileLines(username \o <<":">> \o hashed_pw \o <<"\n">>))

\* register_user() with the two answers typed, on a file that no other
\* process writes meanwhile: the file afterwards, the message printed and the
\* value returned
register_user(file, typed_name, typed_password) ==
    LET username  == Strip(typed_name)
        password  == Strip(typed_password)
        hashed_pw == hash_password(password)
    IN  IF UsernameTaken(file, username)
        THEN [users_txt |-> file, printed |-> "Username already exists.",
              result |-> Null]
        ELSE [users_txt |-> register_user_append(file, username, hashed_pw),
              printed |-> "registered successfully!",
              result |-> Some(username)]

\* the number of lines of the file
LineCount(file) == IF file = Null THEN 0 ELSE Len(file[1])

\* A call of register_user is two steps: the scan opens, reads and closes the
\* file, and the append opens it again, with no lock in between, so another
\* process can write the file meanwhile.  A call that found the name taken
\* returns at once; any other call waits in waiting with the line it is
\* about to append.
BeginRegister(typed_name, typed_password) ==
    LET r == register_user(users_txt, typed_name, typed_password)
        rec == [name |-> "register_user", typed_name |-> typed_name,
                typed_password |-> typed_password]
    IN  IF r.users_txt = users_txt
        THEN /\ call' = rec @@ [before |-> users_txt, printed |-> r.printed,
                                 result |-> r.result]
             /\ UNCHANGED <<raw, parsed, notes, seq, users_txt, session_user, pc, json_files, waiting>>
        ELSE /\ waiting' = waiting (+) SetToBag({[op |-> "register",
                                                  username |-> Strip(typed_name),
                                                  hashed_pw |-> hash_password(Strip(typed_password)),
                                                  rec |-> rec]})
             /\ call' = rec @@ [before |-> users_txt, printed |-> "", result |-> Null]
             /\ UNCHANGED <<raw, parsed, notes, seq, users_txt, session_user, pc, json_files>>

\* the waiting call e appends its line and returns the username
FinishRegister(e) ==
    /\ users_txt' = register_user_append(users_txt, e.username, e.hashed_pw)
    /\ waiting' = waiting (-) SetToBag({e})
    /\ call' = e.rec @@ [before |-> users_txt, printed |-> "registered successfully!",
                          result |-> Some(e.username)]
    /\ UNCHANGED <<raw, parsed, notes, seq, session_user, pc, json_files>>

MaxUsers == 2

TypedNames == {<<>>, <<" ">>, <<"u">>, <<" ", "v">>, <<"a", "\r", "u">>}
TypedPasswords == {<<>>, <<"p">>}

\* a call of register_user() starts at a free terminal, while the file has
\* room for what the call writes beside the lines about to be written
RegisterUser ==
    \E n \in TypedNames, p \in TypedPasswords :
        /\ Free
        /\ LineCount(register_user(users_txt, n, p).users_txt) + Pending("register")
               <= MaxUsers
        /\ BeginRegister(n, p)

\* a waiting call of register_user() writes its line
RegisterWrite == \E e \in Waiting("register") : FinishRegister(e)

NextUsers == RegisterUser \/ RegisterWrite

SpecUsers == Init /\ [][NextUsers]_vars

(***************************************************************************)
(* view_note_from_db, search_notes_by_keyword and filter_notes_by_tag.     *)
(* shown is the list handed to render_notes_table.                         *)
(***************************************************************************)

\* str.lower().  UpperChars holds the characters that str.lower() changes,
\* and LowerChars, at the same places, what it makes of them.  NoLowerChars
\* holds the characters left out of the table: the capital sigma, whose lower
\* case depends on its neighbours, and the letters whose lower case cannot be
\* written in a string.
UpperChars ==
    <<"A", "B", "C", "D", "E", "F", "G", "H", "I", "J", "K", "L", "M", "N", "O", "P", "Q", "R",
      "S", "T", "U", "V", "W", "X", "Y", "Z", "À", "Á", "Â", "Ã", "Ä", "Å", "Æ", "Ç", "È", "É",
      "Ê", "Ë", "Ì", "Í", "Î", "Ï", "Ð", "Ñ", "Ò", "Ó", "Ô", "Õ", "Ö", "Ø", "Ù", "Ú", "Û", "Ü",
      "Ý", "Þ", "Ƃ", "Ƅ", "Ƈ", "Ƌ", "Ǝ", "Ƒ", "Ƙ", "Ơ", "Ƣ", "Ƥ", "Ʀ", "Ƨ", "Ʃ", "Ƭ", "Ʈ", "Ư",
      "Ʊ", "Ʋ", "Ƴ", "Ƶ", "Ʒ", "Ƹ", "Ƽ", "Ǆ", "ǅ", "Ǉ", "ǈ", "Ǌ", "ǋ", "Ǎ", "Ǐ", "Ǒ", "Ǔ", "Ǖ",
      "Ǘ", "Ǚ", "Ǜ", "Ǟ", "Ǡ", "Ǣ", "Ǥ", "Ǧ", "Ǩ", "Ǫ", "Ǭ", "Ǯ", "Ǳ", "ǲ", "Ǵ", "Ƕ", "Ƿ", "Ǹ",
      "Ǻ", "Ǽ", "Ǿ", "Ά", "Έ", "Ή", "Ί", "Ό", "Ύ", "Ώ", "Α", "Β", "Γ", "Δ", "Ε", "Ζ", "Η", "Θ",
      "Ι", "Κ", "Λ", "Μ", "Ν", "Ξ", "Ο", "Π", "Ρ", "Τ", "Υ", "Φ", "Χ", "Ψ", "Ω", "Ϊ", "Ϋ", "Ϗ",
      "Ϙ", "Ϛ", "Ϝ", "Ϟ", "Ϡ", "Ϣ", "Ϥ", "Ϧ", "Ϩ", "Ϫ", "Ϭ", "Ϯ", "ϴ", "Ϸ", "Ϲ", "Ϻ", "Ҁ", "Ҋ",
      "Ҍ", "Ҏ", "Ґ", "Ғ", "Ҕ", "Җ", "Ҙ", "Қ", "Ҝ", "Ҟ", "Ҡ", "Ң", "Ҥ", "Ҧ", "Ҩ", "Ҫ", "Ҭ", "Ү",
      "Ұ", "Ҳ", "Ҵ", "Ҷ", "Ҹ", "Һ", "Ҽ", "Ҿ", "Ӏ", "Ӂ", "Ӄ", "Ӆ", "Ӈ", "Ӊ", "Ӌ", "Ӎ", "Ӑ", "Ӓ",
      "Ӕ", "Ӗ", "Ә", "Ӛ", "Ӝ", "Ӟ", "Ӡ", "Ӣ", "Ӥ", "Ӧ", "Ө", "Ӫ", "Ӭ", "Ӯ", "Ӱ", "Ӳ", "Ӵ", "Ӷ",
      "Ӹ", "Ӻ", "Ӽ", "Ӿ", "Ꮀ", "Ꮁ", "Ꮂ", "Ꮃ", "Ꮄ", "Ꮅ", "Ꮆ", "Ꮇ", "Ꮈ", "Ꮉ", "Ꮊ", "Ꮋ", "Ꮌ", "Ꮍ",
      "Ꮎ", "Ꮏ", "Ꮐ", "Ꮑ", "Ꮒ", "Ꮓ", "Ꮔ", "Ꮕ", "Ꮖ", "Ꮗ", "Ꮘ", "Ꮙ", "Ꮚ", "Ꮛ", "Ꮜ", "Ꮝ", "Ꮞ", "Ꮟ",
      "Ꮠ", "Ꮡ", "Ꮢ", "Ꮣ", "Ꮤ", "Ꮥ", "Ꮦ", "Ꮧ", "Ꮨ", "Ꮩ", "Ꮪ", "Ꮫ", "Ꮬ", "Ꮭ", "Ꮮ", "Ꮯ", "Ꮰ", "Ꮱ",
      "Ꮲ", "Ꮳ", "Ꮴ", "Ꮵ", "Ꮶ", "Ꮷ", "Ꮸ", "Ꮹ", "Ꮺ", "Ꮻ", "Ꮼ", "Ꮽ", "Ꮾ", "Ꮿ", "Ᏸ", "Ᏹ", "Ᏺ", "Ᏻ",
      "Ᏼ", "Ᏽ", "Ა", "Ბ", "Გ", "Დ", "Ე", "Ვ", "Ზ", "Თ", "Ი", "Კ", "Ლ", "Მ", "Ნ", "Ო", "Პ", "Ჟ",
      "Რ", "Ს", "Ტ", "Უ", "Ფ", "Ქ", "Ღ", "Ყ", "Შ", "Ჩ", "Ც", "Ძ", "Წ", "Ჭ", "Ხ", "Ჯ", "Ჰ", "Ჱ",
      "Ჲ", "Ჳ", "Ჴ", "Ჵ", "Ჶ", "Ჷ", "Ჸ", "Ჹ", "Ჺ", "Ჽ", "Ჾ", "Ჿ", "Ẁ", "Ẃ", "Ẅ", "Ẇ", "Ẉ", "Ẋ",
      "Ẍ", "Ẏ", "Ẑ", "Ẓ", "Ẕ", "ẞ", "Ạ", "Ả", "Ấ", "Ầ", "Ẩ", "Ẫ", "Ậ", "Ắ", "Ằ", "Ẳ", "Ẵ", "Ặ",
      "Ẹ", "Ẻ", "Ẽ", "Ế", "Ề", "Ể", "Ễ", "Ệ", "Ỉ", "Ị", "Ọ", "Ỏ", "Ố", "Ồ", "Ổ", "Ỗ", "Ộ", "Ớ",
      "Ờ", "Ở", "Ỡ", "Ợ", "Ụ", "Ủ", "Ứ", "Ừ", "Ử", "Ữ", "Ự", "Ỳ", "Ỵ", "Ỷ", "Ỹ", "Ỻ", "Ỽ", "Ỿ",
      "ᾈ", "ᾉ", "ᾊ", "ᾋ", "ᾌ", "ᾍ", "ᾎ", "ᾏ", "ᾘ", "ᾙ", "ᾚ", "ᾛ", "ᾜ", "ᾝ", "ᾞ", "ᾟ", "ᾨ", "ᾩ",
      "ᾪ", "ᾫ", "ᾬ", "ᾭ", "ᾮ", "ᾯ", "Ᾰ", "Ᾱ", "ᾼ", "ῌ", "Ῐ", "Ῑ", "Ῠ", "Ῡ", "Ῥ", "ῼ", "Ↄ", "Ⓐ",
      "Ⓑ", "Ⓒ", "Ⓓ", "Ⓔ", "Ⓕ", "Ⓖ", "Ⓗ", "Ⓘ", "Ⓙ", "Ⓚ", "Ⓛ", "Ⓜ", "Ⓝ", "Ⓞ", "Ⓟ", "Ⓠ", "Ⓡ", "Ⓢ",
      "Ⓣ", "Ⓤ", "Ⓥ", "Ⓦ", "Ⓧ", "Ⓨ", "Ⓩ", "Ⲁ", "Ⲃ", "Ⲅ", "Ⲇ", "Ⲉ", "Ⲋ", "Ⲍ", "Ⲏ", "Ⲑ", "Ⲓ", "Ⲕ",
      "Ⲗ", "Ⲙ", "Ⲛ", "Ⲝ", "Ⲟ", "Ⲡ", "Ⲣ", "Ⲥ", "Ⲧ", "Ⲩ", "Ⲫ", "Ⲭ", "Ⲯ", "Ⲱ", "Ⲳ", "Ⲵ", "Ⲷ", "Ⲹ",
      "Ⲻ", "Ⲽ", "Ⲿ", "Ⳁ", "Ⳃ", "Ⳅ", "Ⳇ", "Ⳉ", "Ⳋ", "Ⳍ", "Ⳏ", "Ⳑ", "Ⳓ", "Ⳕ", "Ⳗ", "Ⳙ", "Ⳛ", "Ⳝ",
      "Ⳟ", "Ⳡ", "Ⳣ", "Ⳬ", "Ⳮ", "Ⳳ", "Ꚁ", "Ꚃ", "Ꚅ", "Ꚇ", "Ꚉ", "Ꚋ", "Ꚍ", "Ꚏ", "Ꚑ", "Ꚓ", "Ꚕ", "Ꚗ",
      "Ꚙ", "Ꚛ", "Ꞁ", "Ꞃ", "Ꞅ", "Ꞇ", "Ꞌ", "Ꞑ", "Ꞓ", "Ꞗ", "Ꞙ", "Ꞛ", "Ꞝ", "Ꞟ", "Ꞡ", "Ꞣ", "Ꞥ", "Ꞧ",
      "Ꞩ", "Ʞ", "Ʇ", "Ʝ", "Ꞵ", "Ꞷ", "Ꞹ", "Ꞻ", "Ꞽ", "Ꞿ", "Ꟁ", "Ꟃ", "Ꞔ", "Ʂ", "Ᶎ", "Ꟈ", "Ꟊ", "Ꟑ",
      "Ꟗ", "Ꟙ", "Ꟶ">>

LowerChars ==
    <<"a", "b", "c", "d", "e", "f", "g", "h", "i", "j", "k", "l", "m", "n", "o", "p", "q", "r",
      "s", "t", "u", "v", "w", "x", "y", "z", "à", "á", "â", "ã", "ä", "å", "æ", "ç", "è", "é",
      "ê", "ë", "ì", "í", "î", "ï", "ð", "ñ", "ò", "ó", "ô", "õ", "ö", "ø", "ù", "ú", "û", "ü",
      "ý", "þ", "ƃ", "ƅ", "ƈ", "ƌ", "ǝ", "ƒ", "ƙ", "ơ", "ƣ", "ƥ", "ʀ", "ƨ", "ʃ", "ƭ", "ʈ", "ư",
      "ʊ", "ʋ", "ƴ", "ƶ", "ʒ", "ƹ", "ƽ", "ǆ", "ǆ", "ǉ", "ǉ", "ǌ", "ǌ", "ǎ", "ǐ", "ǒ", "ǔ", "ǖ",
      "ǘ", "ǚ", "ǜ", "ǟ", "ǡ", "ǣ", "ǥ", "ǧ", "ǩ", "ǫ", "ǭ", "ǯ", "ǳ", "ǳ", "ǵ", "ƕ", "ƿ", "ǹ",
      "ǻ", "ǽ", "ǿ", "ά", "έ", "ή", "ί", "ό", "ύ", "ώ", "α", "β", "γ", "δ", "ε", "ζ", "η", "θ",
      "ι", "κ", "λ", "μ", "ν", "ξ", "ο", "π", "ρ", "τ", "υ", "φ", "χ", "ψ", "ω", "ϊ", "ϋ", "ϗ",
      "ϙ", "ϛ", "ϝ", "ϟ", "ϡ", "ϣ", "ϥ", "ϧ", "ϩ", "ϫ", "ϭ", "ϯ", "θ", "ϸ", "ϲ", "ϻ", "ҁ", "ҋ",
      "ҍ", "ҏ", "ґ", "ғ", "ҕ", "җ", "ҙ", "қ", "ҝ", "ҟ", "ҡ", "ң", "ҥ", "ҧ", "ҩ", "ҫ", "ҭ", "ү",
      "ұ", "ҳ", "ҵ", "ҷ", "ҹ", "һ", "ҽ", "ҿ", "ӏ", "ӂ", "ӄ", "ӆ", "ӈ", "ӊ", "ӌ", "ӎ", "ӑ", "ӓ",
      "ӕ", "ӗ", "ә", "ӛ", "ӝ", "ӟ", "ӡ", "ӣ", "ӥ", "ӧ", "ө", "ӫ", "ӭ", "ӯ", "ӱ", "ӳ", "ӵ", "ӷ",
      "ӹ", "ӻ", "ӽ", "ӿ", "ꮀ", "ꮁ", "ꮂ", "ꮃ", "ꮄ", "ꮅ", "ꮆ", "ꮇ", "ꮈ", "ꮉ", "ꮊ", "ꮋ", "ꮌ", "ꮍ",
      "ꮎ", "ꮏ", "ꮐ", "ꮑ", "ꮒ", "ꮓ", "ꮔ", "ꮕ", "ꮖ", "ꮗ", "ꮘ", "ꮙ", "ꮚ", "ꮛ", "ꮜ", "ꮝ", "ꮞ", "ꮟ",
      "ꮠ", "ꮡ", "ꮢ", "ꮣ", "ꮤ", "ꮥ", "ꮦ", "ꮧ", "ꮨ", "ꮩ", "ꮪ", "ꮫ", "ꮬ", "ꮭ", "ꮮ", "ꮯ", "ꮰ", "ꮱ",
      "ꮲ", "ꮳ", "ꮴ", "ꮵ", "ꮶ", "ꮷ", "ꮸ", "ꮹ", "ꮺ", "ꮻ", "ꮼ", "ꮽ", "ꮾ", "ꮿ", "ᏸ", "ᏹ", "ᏺ", "ᏻ",
      "ᏼ", "ᏽ", "ა", "ბ", "გ", "დ", "ე", "ვ", "ზ", "თ", "ი", "კ", "ლ", "მ", "ნ", "ო", "პ", "ჟ",
      "რ", "ს", "ტ", "უ", "ფ", "ქ", "ღ", "ყ", "შ", "ჩ", "ც", "ძ", "წ", "ჭ", "ხ", "ჯ", "ჰ", "ჱ",
      "ჲ", "ჳ", "ჴ", "ჵ", "ჶ", "ჷ", "ჸ", "ჹ", "ჺ", "ჽ", "ჾ", "ჿ", "ẁ", "ẃ", "ẅ", "ẇ", "ẉ", "ẋ",
      "ẍ", "ẏ", "ẑ", "ẓ", "ẕ", "ß", "ạ", "ả", "ấ", "ầ", "ẩ", "ẫ", "ậ", "ắ", "ằ", "ẳ", "ẵ", "ặ",
      "ẹ", "ẻ", "ẽ", "ế", "ề", "ể", "ễ", "ệ", "ỉ", "ị", "ọ", "ỏ", "ố", "ồ", "ổ", "ỗ", "ộ", "ớ",
      "ờ", "ở", "ỡ", "ợ", "ụ", "ủ", "ứ", "ừ", "ử", "ữ", "ự", "ỳ", "ỵ", "ỷ", "ỹ", "ỻ", "ỽ", "ỿ",
      "ᾀ", "ᾁ", "ᾂ", "ᾃ", "ᾄ", "ᾅ", "ᾆ", "ᾇ", "ᾐ", "ᾑ", "ᾒ", "ᾓ", "ᾔ", "ᾕ", "ᾖ", "ᾗ", "ᾠ", "ᾡ",
      "ᾢ", "ᾣ", "ᾤ", "ᾥ", "ᾦ", "ᾧ", "ᾰ", "ᾱ", "ᾳ", "ῃ", "ῐ", "ῑ", "ῠ", "ῡ", "ῥ", "ῳ", "ↄ", "ⓐ",
      "ⓑ", "ⓒ", "ⓓ", "ⓔ", "ⓕ", "ⓖ", "ⓗ", "ⓘ", "ⓙ", "ⓚ", "ⓛ", "ⓜ", "ⓝ", "ⓞ", "ⓟ", "ⓠ", "ⓡ", "ⓢ",
      "ⓣ", "ⓤ", "ⓥ", "ⓦ", "ⓧ", "ⓨ", "ⓩ", "ⲁ", "ⲃ", "ⲅ", "ⲇ", "ⲉ", "ⲋ", "ⲍ", "ⲏ", "ⲑ", "ⲓ", "ⲕ",
      "ⲗ", "ⲙ", "ⲛ", "ⲝ", "ⲟ", "ⲡ", "ⲣ", "ⲥ", "ⲧ", "ⲩ", "ⲫ", "ⲭ", "ⲯ", "ⲱ", "ⲳ", "ⲵ", "ⲷ", "ⲹ",
      "ⲻ", "ⲽ", "ⲿ", "ⳁ", "ⳃ", "ⳅ", "ⳇ", "ⳉ", "ⳋ", "ⳍ", "ⳏ", "ⳑ", "ⳓ", "ⳕ", "ⳗ", "ⳙ", "ⳛ", "ⳝ",
      "ⳟ", "ⳡ", "ⳣ", "ⳬ", "ⳮ", "ⳳ", "ꚁ", "ꚃ", "ꚅ", "ꚇ", "ꚉ", "ꚋ", "ꚍ", "ꚏ", "ꚑ", "ꚓ", "ꚕ", "ꚗ",
      "ꚙ", "ꚛ", "ꞁ", "ꞃ", "ꞅ", "ꞇ", "ꞌ", "ꞑ", "ꞓ", "ꞗ", "ꞙ", "ꞛ", "ꞝ", "ꞟ", "ꞡ", "ꞣ", "ꞥ", "ꞧ",
      "ꞩ", "ʞ", "ʇ", "ʝ", "ꞵ", "ꞷ", "ꞹ", "ꞻ", "ꞽ", "ꞿ", "ꟁ", "ꟃ", "ꞔ", "ʂ", "ᶎ", "ꟈ", "ꟊ", "ꟑ",
      "ꟗ", "ꟙ", "ꟶ">>

NoLowerChars ==
    {"Ɓ", "Ɔ", "Ɖ", "Ɗ", "Ə", "Ɛ", "Ɠ", "Ɣ", "Ɩ", "Ɨ", "Ɯ", "Ɲ", "Ɵ", "Σ", "Ͻ", "Ͼ", "Ͽ", "Ⴀ",
     "Ⴁ", "Ⴂ", "Ⴃ", "Ⴄ", "Ⴅ", "Ⴆ", "Ⴇ", "Ⴈ", "Ⴉ", "Ⴊ", "Ⴋ", "Ⴌ", "Ⴍ", "Ⴎ", "Ⴏ", "Ⴐ", "Ⴑ", "Ⴒ",
     "Ⴓ", "Ⴔ", "Ⴕ", "Ⴖ", "Ⴗ", "Ⴘ", "Ⴙ", "Ⴚ", "Ⴛ", "Ⴜ", "Ⴝ", "Ⴞ", "Ⴟ", "Ⴠ", "Ⴡ", "Ⴢ", "Ⴣ", "Ⴤ",
     "Ⴥ", "Ⴧ", "Ⴭ", "Ꭰ", "Ꭱ", "Ꭲ", "Ꭳ", "Ꭴ", "Ꭵ", "Ꭶ", "Ꭷ", "Ꭸ", "Ꭹ", "Ꭺ", "Ꭻ", "Ꭼ", "Ꭽ", "Ꭾ",
     "Ꭿ", "Ὰ", "Ά", "Ὲ", "Έ", "Ὴ", "Ή", "Ὶ", "Ί", "Ὺ", "Ύ", "Ὸ", "Ό", "Ὼ", "Ώ", "Ɥ", "Ɦ", "Ɜ",
     "Ɡ", "Ɬ", "Ɪ", "Ꭓ"}

\* c.lower() for one character
LowerChar(c) ==
    CASE IsChar(c) /\ c \notin NoLowerChars ->
        IF \E i \in DOMAIN UpperChars : UpperChars[i] = c
        THEN LowerChars[CHOOSE i \in DOMAIN UpperChars : UpperChars[i] = c]
        ELSE c

\* s.lower()
Lower(s) == [i \in 1..Len(s) |-> LowerChar(s[i])]

\* the letters SQLite folds: A to Z
UpperLetters == <<"A", "B", "C", "D", "E", "F", "G", "H", "I", "J", "K", "L", "M",
                  "N", "O", "P", "Q", "R", "S", "T", "U", "V", "W", "X", "Y", "Z">>
LowerLetters == <<"a", "b", "c", "d", "e", "f", "g", "h", "i", "j", "k", "l", "m",
                  "n", "o", "p", "q", "r", "s", "t", "u", "v", "w", "x", "y", "z">>

\* what LOWER() and LIKE of SQLite make of one character: the letters A to Z
\* in lower case, every other character as it is
SqlLowerChar(c) ==
    IF \E i \in 1..26 : UpperLetters[i] = c
    THEN LowerLetters[CHOOSE i \in 1..26 : UpperLetters[i] = c]
    ELSE c

\* LOWER(s) of SQLite
SqlLower(s) == [i \in 1..Len(s) |-> SqlLowerChar(s[i])]

\* SQL "text LIKE pattern" on present values: "%" stands for any run of
\* characters, "_" for any one character, and A to Z match in either case
RECURSIVE Like(_, _)
Like(text, pattern) ==
    IF pattern = <<>> THEN text = <<>>
    ELSE IF pattern[1] = "%"
    THEN \E k \in 0..Len(text) : Like(SubSeq(text, k + 1, Len(text)), Tail(pattern))
    ELSE /\ text # <<>>
         /\ pattern[1] = "_" \/ SqlLowerChar(pattern[1]) = SqlLowerChar(text[1])
         /\ Like(Tail(text), Tail(pattern))

\* SQL "column LIKE pattern": a NULL column selects nothing
SqlLike(column, pattern) == column # Null /\ Like(column[1], pattern)

\* the columns id, note, tags, due_date of the rows
Columns(rows) ==
    [i \in 1..Len(rows) |-> [id |-> rows[i].id, note |-> rows[i].note,
                             tags |-> rows[i].tags, due_date |-> rows[i].due_date]]

\* a call of view_note_from_db(user)
ViewNotes(user) ==
    LET rows == SelectNotes(notes, user)
    IN  /\ call' = [name |-> "view_note_from_db", user |-> user, before |-> notes,
                    shown |-> rows,
                    printed |-> IF rows # <<>> THEN "table" ELSE "No notes found.",
                    result |-> "None"]
        /\ UNCHANGED <<raw, parsed, notes, seq, users_txt, session_user, pc, json_files, waiting>>

\* rows of SELECT ... WHERE user = ? AND LOWER(note) LIKE LOWER(?)
SearchRows(table, user, keyword) ==
    Columns(SelectSeq(table, LAMBDA r :
        /\ r.user = user
        /\ Like(SqlLower(r.note), SqlLower(<<"%">> \o Lower(keyword) \o <<"%">>))))

\* a call of search_notes_by_keyword(user, keyword)
SearchNotes(user, keyword) ==
    LET results == SearchRows(notes, user, keyword)
    IN  /\ call' = [name |-> "search_notes_by_keyword", user |-> user,
                    keyword |-> keyword, before |-> notes, shown |-> results,
                    printed |-> IF results # <<>> THEN "table"
                                ELSE "No notes found containing",
                    result |-> "None"]
        /\ UNCHANGED <<raw, parsed, notes, seq, users_txt, session_user, pc, json_files, waiting>>

\* rows of SELECT ... WHERE user = ? AND tags LIKE ?
TagRows(table, user, tag) ==
    Columns(SelectSeq(table, LAMBDA r :
        r.user = user /\ SqlLike(r.tags, <<"%">> \o tag \o <<"%">>)))

\* a call of filter_notes_by_tag(user, tag)
FilterNotes(user, tag) ==
    LET results == TagRows(notes, user, tag)
    IN  /\ call' = [name |-> "filter_notes_by_tag", user |-> user, tag |-> tag,
                    before |-> notes, shown |-> results,
                    printed |-> IF results # <<>> THEN "table"
                                ELSE "No notes found with tag",
                    result |-> "None"]
        /\ UNCHANGED <<raw, parsed, notes, seq, users_txt, session_user, pc, json_files, waiting>>

(***************************************************************************)
(* The note operations side by side on one store: every operation a        *)
(* logged-in user can start, called by the user whose operations are       *)
(* followed, while every user adds notes.                                  *)
(***************************************************************************)
MaxSharedNotes == 2

SharedDay == <<"2", "0", "2", "4", "-", "0", "2", "-", "2", "5">>
SharedIds == 1..(MaxSharedNotes + 1)
\* notes_<user>.txt: one line, the note that SharedAdd adds with its tag
SharedTxtFile ==
    Some(<<<<"n", " ", "#", "a", " ", "[", "d", "u", "e", ":">> \o SharedDay \o <<"]">>>>)

\* some user starts to add a note at a free terminal, while fewer than
\* MaxSharedNotes ids are given out or about to be
SharedAdd ==
    \E u \in Users :
        /\ Free
        /\ seq + Pending("add") < MaxSharedNotes
        /\ AddNote(u, <<"n">>, <<<<"#", "a">>>>, Some(SharedDay))

\* a waiting add or import writes its row
SharedInsert == StoreInsert

\* the user starts to import their legacy text file or their export file
\* as it is
SharedImport ==
    \E u \in Actors :
        /\ Free
        /\ \/ ImportTxtNotes([name |-> "import_txt_to_db", user |-> u], SharedTxtFile)
           \/ ImportJsonNotes([name |-> "import_json_to_db", user |-> u],
                              FileOf(json_files, u))

\* a waiting import calls add_note_to_db, while an id is left for the row
SharedImportSelect ==
    \E e \in Waiting("import") : ImportAdd(e, seq + Pending("add") < MaxSharedNotes)

\* the user calls edit_note_by_id with some id at a free terminal
SharedEdit == \E u \in Actors, i \in SharedIds : Free /\ BeginEdit(u, i)

\* a waiting call is answered
SharedEditWrite ==
    \E e \in Waiting("edit") : FinishEdit(e, <<<<"x">>, <<"b">>, <<>>>>)

\* the user deletes the note with some id
SharedDelete == \E u \in Actors, i \in SharedIds : Free /\ DeleteNoteById(u, i)

\* the user looks at notes: all of them, by keyword, by tag, or those due
\* within a week
SharedView ==
    \E u \in Actors :
        /\ Free
        /\ \/ ViewNotes(u)
           \/ SearchNotes(u, <<"N">>)
           \/ FilterNotes(u, <<"A">>)
           \/ ViewDueNotes(u, "week", [y |-> 2024, m |-> 2, d |-> 25])

\* the user starts to export, and the open and the write of a waiting
\* export
SharedExport == \E u \in Actors : Free /\ ExportNotes(u)
SharedExportOpen == StoreExportOpen
SharedExportWrite == StoreExportWrite

NextShared ==
    \/ SharedAdd \/ SharedInsert \/ SharedImport \/ SharedImportSelect
    \/ SharedEdit \/ SharedEditWrite
    \/ SharedDelete \/ SharedView \/ SharedExport \/ SharedExportOpen
    \/ SharedExportWrite

SpecShared == Init /\ [][NextShared]_vars

(***************************************************************************)
(* An export followed at once by the import of the exported file.  What    *)
(* json.dump writes for a list of objects with str, list and None values   *)
(* json.load reads back as the same list, so the file the import finds     *)
(* after an export that no other export of the user has overlapped is the  *)
(* list of the objects in data.  The import reads the file in the step     *)
(* after the write of the export; the add_note_to_db it calls runs its     *)
(* SELECT and its INSERT in later steps.                                   *)
(***************************************************************************)
MaxReimportNotes == 2

\* some user starts to add a note at a free terminal, while fewer than
\* MaxReimportNotes ids are given out or about to be
ReimportAdd ==
    \E u \in Users, t \in {<<>>, <<<<"#", "a">>, <<"#", "b">>>>}, d \in {Null, Some(SharedDay)} :
        /\ Free
        /\ seq + Pending("add") < MaxReimportNotes
        /\ AddNote(u, <<"n">>, t, d)

\* a waiting add or import writes its row
ReimportInsert == StoreInsert

\* the user whose export has just ended starts to import the file
ReimportImport ==
    /\ call.name = "export_notes_to_json"
    /\ call.stage = "write"
    /\ Free
    /\ ImportJsonNotes([name |-> "import_json_to_db", user |-> call.user,
                        kind |-> json_files[call.user].kind,
                        exported |-> call.data],
                       FileOf(json_files, call.user))

\* a waiting import calls add_note_to_db, while an id is left for the row
ReimportImportSelect ==
    \E e \in Waiting("import") : ImportAdd(e, seq + Pending("add") < MaxReimportNotes + 1)

\* some user starts to export, and the open and the write of a waiting
\* export
ReimportExport == \E u \in Users : Free /\ ExportNotes(u)
ReimportExportOpen == StoreExportOpen
ReimportExportWrite == StoreExportWrite

NextReimport ==
    \/ ReimportAdd \/ ReimportInsert \/ ReimportExport \/ ReimportExportOpen
    \/ ReimportExportWrite \/ ReimportImport \/ ReimportImportSelect

SpecReimport == Init /\ [][NextReimport]_vars

(***************************************************************************)
(* main.  session_user is the global "user" of the running program and pc  *)
(* the place main has reached: "login_menu" (the loop while user is None), *)
(* "registering" (register_user has scanned users.txt and is about to      *)
(* append), "due_alerts" (the loop has been left), "main_menu", "adding"   *)
(* (add_note_to_db has run its SELECT and is about to insert), "importing" *)
(* (an import has read its file and is about to call add_note_to_db),      *)
(* "exporting" (export_notes_to_json has run its SELECT),                  *)
(* "edit_prompt" (the prompts of choice 3), "delete_prompt" (the loop of   *)
(* choice 4), "exited" (exit() was called) and "crashed" (an exception     *)
(* left main).  The database, users.txt and the export files outlive a     *)
(* run, and another running instance of the program registers users in     *)
(* the same users.txt.                                                     *)
(***************************************************************************)

\* the loop of login_user over the lines of users.txt: unpacking a line that
\* does not split at ":" into exactly two parts raises ValueError
RECURSIVE login_scan(_, _, _)
login_scan(lines, username, hashed_pw) ==
    IF lines = <<>> THEN "no match"
    ELSE LET parts == SplitOn(Strip(lines[1]), ":")
         IN  IF Len(parts) # 2 THEN "ValueError"
             ELSE IF parts[1] = username /\ parts[2] = hashed_pw THEN "match"
             ELSE login_scan(Tail(lines), username, hashed_pw)

\* login_user() with the two answers typed: the message printed and the
\* value returned, or the exception that leaves the function
login_user(file, typed_name, typed_password) ==
    LET username  == Strip(typed_name)
        password  == Strip(typed_password)
        hashed_pw == hash_password(password)
        found     == IF file = Null THEN "no match"
                     ELSE login_scan(file[1], username, hashed_pw)
    IN  IF found = "match"
        THEN [printed |-> "Login successfull!", result |-> Some(username),
              raised |-> "None"]
        ELSE IF found = "ValueError"
        THEN [printed |-> "", result |-> Null, raised |-> "ValueError"]
        ELSE [printed |-> "Login failed. Try again", result |-> Null,
              raised |-> "None"]

\* "%02d" % n
ZeroPadded(n) == IF n < 10 THEN <<"0">> \o DecimalText(n) ELSE DecimalText(n)

\* date.strftime("%Y-%m-%d"), the year as the C library prints it
strftime(date) ==
    DecimalText(date.y) \o <<"-">> \o ZeroPadded(date.m) \o <<"-">> \o ZeroPadded(date.d)

\* the counting loop of show_due_alerts_from_db over the selected due dates
RECURSIVE CountAlerts(_, _)
CountAlerts(rows, today) ==
    IF rows = <<>> THEN [overdue |-> 0, due_today |-> 0]
    ELSE LET rest == CountAlerts(Tail(rows), today)
             due_date == strptime(rows[1].due_date[1])
         IN  IF ~due_date.ok THEN rest
             ELSE IF ToOrdinal(due_date) < ToOrdinal(today)
             THEN [overdue |-> rest.overdue + 1, due_today |-> rest.due_today]
             ELSE IF ToOrdinal(due_date) = ToOrdinal(today)
             THEN [overdue |-> rest.overdue, due_today |-> rest.due_today + 1]
             ELSE rest

\* show_due_alerts_from_db() for the global user: what it prints
show_due_alerts_from_db(table, user, today) ==
    LET results == SelectSeq(UserRows(table, user), LAMBDA r : r.due_date # Null)
        counts  == CountAlerts(results, today)
    IN  IF counts.overdue > 0 \/ counts.due_today > 0
        THEN [printed |-> "Reminders", overdue |-> counts.overdue,
              due_today |-> counts.due_today]
        ELSE [printed |-> "No due tasks today. All clear", overdue |-> 0,
              due_today |-> 0]

\* db_note_exists(user, note_id)
db_note_exists(table, user, note_id) == IdRows(table, note_id, user) # <<>>

\* str.isdigit()
IsDigitText(s) ==
    s # <<>> /\ \A i \in 1..Len(s) : IsDigit(s[i])

\* the whitespace int() accepts around a number: that of str.isspace()
\* without \x1c to \x1f, which int() leaves in the text as they are
IntSpaceChars == WhitespaceChars \ {"", "", "", ""}

\* s.lstrip(chars): drop every leading character that is in chars
RECURSIVE LStripChars(_, _)
LStripChars(s, chars) ==
    IF s # <<>> /\ s[1] \in chars THEN LStripChars(Tail(s), chars) ELSE s

\* the text without the whitespace int() accepts around a number
IntStripped(text) == LStripChars(RStripChars(text, IntSpaceChars), IntSpaceChars)

\* the text int() reads its number from: the text without that whitespace
\* and without a sign in front
Unsigned(text) ==
    LET s == IntStripped(text)
    IN  IF s # <<>> /\ s[1] \in {"+", "-"} THEN Tail(s) ELSE s

\* int(text) succeeds: decimal digits, with single underscores between them
IsIntText(text) ==
    LET s == Unsigned(text)
    IN  /\ s # <<>>
        /\ \A i \in 1..Len(s) :
               \/ IsDecimal(s[i])
               \/ /\ s[i] = "_"
                  /\ IsDecimal(CharAt(s, i - 1))
                  /\ IsDecimal(CharAt(s, i + 1))

\* int(text) when it succeeds
IntValue(text) ==
    LET n == IntOf(SelectSeq(Unsigned(text), LAMBDA c : c # "_"))
    IN  IF IntStripped(text)[1] = "-" THEN 0 - n ELSE n

MaxMainUsers == 2
MaxMainNotes == 1

MainNames == {<<>>, <<"u">>, <<"a", ":", "b">>}
MainPasswords == {<<"p">>, <<"q">>}
MainNewPasswords == {<<"p">>}
MainToday == [y |-> 2024, m |-> 2, d |-> 25]
MainDues == {<<"2", "0", "2", "4", "-", "2", "-", "5">>}
OtherNames == {<<"u">>}
MainIdTexts == {<<" ", "0", "_", "1">>, <<"x">>}
MainEntries == {<<"C", "a", "n", "c", "e", "l">>, <<"1">>, <<"x">>, <<"²">>}

\* what main records of one pass through a menu: the choice, the value of
\* the global user when it was taken, the note operations it executed, the
\* last message and the exception that ended main, if any
MainCall(choice, executed, printed, raised) ==
    [name |-> "main", choice |-> choice, user |-> session_user,
     executed |-> executed, printed |-> printed, raised |-> raised]

\* a pass through the main menu that changes no table
MainShows(choice, executed, printed) ==
    /\ call' = MainCall(choice, executed, printed, "None")
    /\ UNCHANGED <<raw, parsed, notes, seq, users_txt, session_user, pc, json_files, waiting>>

\* main() is started: user = None and the login menu is shown
MainStart ==
    /\ pc \in {"exited", "crashed"}
    /\ session_user' = Null
    /\ pc' = "login_menu"
    /\ call' = MainCall("start", <<>>, "Welcome", "None")
    /\ UNCHANGED <<raw, parsed, notes, seq, users_txt, json_files, waiting>>

\* login menu, choice 1: user = login_user()
MainLogin ==
    /\ pc = "login_menu"
    /\ \E n \in MainNames, p \in MainPasswords :
        LET r == login_user(users_txt, n, p)
        IN  /\ session_user' = r.result
            /\ pc' = IF r.raised # "None" THEN "crashed"
                     ELSE IF r.result # Null THEN "due_alerts" ELSE "login_menu"
            /\ call' = [name |-> "main", choice |-> "login", user |-> session_user,
                        typed_name |-> n, typed_password |-> p, executed |-> <<>>,
                        printed |-> r.printed, raised |-> r.raised]
            /\ UNCHANGED <<raw, parsed, notes, seq, users_txt, json_files, waiting>>

\* login menu, choice 2: user = register_user() starts, while the file has
\* room; it returns None at once when the name is taken, and otherwise has
\* scanned the file and is about to append
MainRegister ==
    /\ pc = "login_menu"
    /\ \E n \in MainNames, p \in MainNewPasswords :
        LET rec == [name |-> "main", choice |-> "register", user |-> session_user,
                    typed_name |-> n, typed_password |-> p, executed |-> <<>>,
                    raised |-> "None"]
        IN  IF UsernameTaken(users_txt, Strip(n))
            THEN /\ call' = rec @@ [printed |-> "Username already exists."]
                 /\ UNCHANGED <<raw, parsed, notes, seq, users_txt, session_user, pc, json_files, waiting>>
            ELSE /\ LineCount(users_txt) + Pending("register") < MaxMainUsers
                 /\ waiting' = waiting (+) SetToBag({[op |-> "register",
                                                      username |-> Strip(n),
                                                      hashed_pw |-> hash_password(Strip(p)),
                                                      rec |-> rec]})
                 /\ pc' = "registering"
                 /\ call' = rec @@ [printed |-> ""]
                 /\ UNCHANGED <<raw, parsed, notes, seq, users_txt, session_user, json_files>>

\* register_user() appends its line and returns the username, which main
\* keeps as the user
MainRegisterWrite ==
    /\ pc = "registering"
    /\ \E e \in Waiting("register") :
        /\ e.rec.name = "main"
        /\ users_txt' = register_user_append(users_txt, e.username, e.hashed_pw)
        /\ waiting' = waiting (-) SetToBag({e})
        /\ session_user' = Some(e.username)
        /\ pc' = "due_alerts"
        /\ call' = e.rec @@ [printed |-> "registered successfully!"]
        /\ UNCHANGED <<raw, parsed, notes, seq, json_files>>

\* the other instance is inside a call of register_user()
OtherBusy == \E e \in Waiting("register") : e.rec.name = "register_user"

\* the other instance starts a call of register_user(), while the file has
\* room
OtherRegister ==
    \E n \in OtherNames, p \in MainNewPasswords :
        /\ ~OtherBusy
        /\ LineCount(users_txt) + Pending("register") < MaxMainUsers
        /\ BeginRegister(n, p)

\* the call of the other instance writes its line
OtherRegisterWrite ==
    \E e \in Waiting("register") : e.rec.name = "register_user" /\ FinishRegister(e)

\* a choice of the main menu reaches the SELECT of add_note_to_db, directly
\* or in an import: r is what the operation does on the table as it is now,
\* and others are the other waiting calls.  When it inserts no row it is
\* over at once, and otherwise it has run the SELECT and is about to insert.
MainAddsAmong(others, choice, executed, r) ==
    IF r.notes = notes
    THEN /\ waiting' = others
         /\ pc' = IF r.result # "None" THEN "crashed" ELSE "main_menu"
         /\ call' = MainCall(choice, executed, r.printed, r.result)
         /\ UNCHANGED <<raw, parsed, notes, seq, users_txt, session_user, json_files>>
    ELSE LET row == r.notes[Len(r.notes)]
         IN  /\ waiting' = others (+) SetToBag({[op |-> "add", user |-> row.user,
                                                  note |-> row.note, tags |-> row.tags,
                                                  due_date |-> row.due_date,
                                                  rec |-> MainCall(choice, executed, "", "None")]})
             /\ pc' = "adding"
             /\ call' = MainCall(choice, executed, "", "None")
             /\ UNCHANGED <<raw, parsed, notes, seq, users_txt, session_user, json_files>>

MainAdds(choice, executed, r) == MainAddsAmong(waiting, choice, executed, r)

\* the INSERT of add_note_to_db, after which the exception of the closed
\* connection leaves main
MainInsert ==
    /\ pc = "adding"
    /\ \E e \in Waiting("add") :
        LET r == add_note_insert(notes, seq, e.user, e.note, e.tags, e.due_date)
        IN  /\ notes' = r.notes
            /\ seq' = r.seq
            /\ waiting' = waiting (-) SetToBag({e})
            /\ pc' = "crashed"
            /\ call' = [e.rec EXCEPT !.printed = r.printed, !.raised = r.result]
            /\ UNCHANGED <<raw, parsed, users_txt, session_user, json_files>>

\* login menu, choice 3, answered yes or no
MainAuthExit ==
    /\ pc = "login_menu"
    /\ \E sure \in BOOLEAN :
        /\ pc' = IF sure THEN "exited" ELSE "login_menu"
        /\ call' = MainCall("auth exit", <<>>, IF sure THEN "Goodbye!" ELSE "", "None")
        /\ UNCHANGED <<raw, parsed, notes, seq, users_txt, session_user, json_files, waiting>>

\* the login loop has been left: show_due_alerts_from_db()
MainDueAlerts ==
    /\ pc = "due_alerts"
    /\ LET r == show_due_alerts_from_db(notes, session_user[1], MainToday)
       IN  /\ pc' = "main_menu"
           /\ call' = MainCall("alerts", <<"show_due_alerts_from_db">>, r.printed, "None")
           /\ UNCHANGED <<raw, parsed, notes, seq, users_txt, session_user, json_files, waiting>>

\* main menu, choice 1: write a note
MainWrite ==
    /\ pc = "main_menu"
    /\ \E typed_note \in {<<" ">>, <<"n", " ">>}, typed_due \in MainDues, save \in BOOLEAN :
        LET your_note == Strip(typed_note)
            your_tags == Strip(<<"a", ",", " ", "b", ",">>)
            due_input == Strip(typed_due)
            tag_list  == HashTags(SplitOn(your_tags, ","))
            parsed_due == strptime(due_input)
            due_date  == IF due_input # <<>> /\ parsed_due.ok
                         THEN Some(strftime(parsed_due)) ELSE Null
            r == add_note_to_db(notes, seq, session_user[1], your_note, tag_list, due_date)
        IN  IF your_note = <<>>
            THEN MainShows("1", <<>>, "Note can't be empty!")
            ELSE IF Len(your_note) > 500
            THEN MainShows("1", <<>>, "Note too long")
            ELSE IF ~save
            THEN MainShows("1", <<>>, "Note not saved...")
            ELSE r.seq <= MaxMainNotes /\ MainAdds("1", <<"add_note_to_db">>, r)

\* main menu, choice 2: view the notes
MainView ==
    /\ pc = "main_menu"
    /\ MainShows("2", <<"view_note_from_db">>,
                 IF SelectNotes(notes, session_user[1]) # <<>> THEN "table"
                 ELSE "No notes found.")

\* main menu, choice 3: view the notes, read an id and call edit_note_by_id,
\* which returns at once or shows its prompts
MainEdit ==
    /\ pc = "main_menu"
    /\ \E typed_id \in MainIdTexts :
        IF ~IsIntText(typed_id)
        THEN MainShows("3", <<"view_note_from_db">>, "Invalid ID entered")
        ELSE LET row == edit_note_select(notes, session_user[1], IntValue(typed_id))
             IN  IF row = <<>>
                 THEN MainShows("3", <<"view_note_from_db", "edit_note_by_id">>,
                                "Note not found.")
                 ELSE /\ waiting' = waiting (+) SetToBag({[op |-> "edit",
                                                           user |-> session_user[1],
                                                           note_id |-> IntValue(typed_id),
                                                           row |-> row[1]]})
                      /\ pc' = "edit_prompt"
                      /\ call' = MainCall("3", <<"view_note_from_db", "edit_note_by_id">>,
                                          "Current Note", "None")
                      /\ UNCHANGED <<raw, parsed, notes, seq, users_txt, session_user, json_files>>

\* the prompts of edit_note_by_id are answered: it writes and returns
MainEditWrite ==
    /\ pc = "edit_prompt"
    /\ \E e \in Waiting("edit") :
       LET r == edit_note_update(notes, e.user, e.note_id, e.row, <<<<"x">>, <<"b">>, <<>>>>)
       IN  /\ notes' = r.notes
           /\ waiting' = waiting (-) SetToBag({e})
           /\ pc' = "main_menu"
           /\ call' = MainCall("3", <<"edit_note_by_id">>, r.printed, "None")
           /\ UNCHANGED <<raw, parsed, seq, users_txt, session_user, json_files>>

\* main menu, choice 4: view the notes and enter the loop asking for an id
MainDelete ==
    /\ pc = "main_menu"
    /\ pc' = "delete_prompt"
    /\ call' = MainCall("4", <<"view_note_from_db">>,
                        IF SelectNotes(notes, session_user[1]) # <<>> THEN "table"
                        ELSE "No notes found.", "None")
    /\ UNCHANGED <<raw, parsed, notes, seq, users_txt, session_user, json_files, waiting>>

\* one pass of the loop of choice 4 with the answer typed
MainDeleteEntry ==
    /\ pc = "delete_prompt"
    /\ \E typed \in MainEntries :
        LET user_input == Strip(typed)
        IN  IF Lower(user_input) = <<"c", "a", "n", "c", "e", "l">>
            THEN /\ pc' = "main_menu"
                 /\ call' = MainCall("4", <<>>, "Delete Cancelled.", "None")
                 /\ UNCHANGED <<raw, parsed, notes, seq, users_txt, session_user, json_files, waiting>>
            ELSE IF ~IsDigitText(user_input)
            THEN MainShows("4", <<>>, "Invalid ID entered. Please enter a number")
            ELSE IF ~IsIntText(user_input)
            THEN /\ pc' = "crashed"
                 /\ call' = MainCall("4", <<>>, "", "ValueError")
                 /\ UNCHANGED <<raw, parsed, notes, seq, users_txt, session_user, json_files, waiting>>
            ELSE IF ~db_note_exists(notes, session_user[1], IntValue(user_input))
            THEN MainShows("4", <<"db_note_exists">>, "not found")
            ELSE /\ notes' = DeleteRow(notes, IntValue(user_input), session_user[1])
                 /\ pc' = "main_menu"
                 /\ call' = MainCall("4", <<"db_note_exists", "delete_note_by_id">>,
                                     "Deleted note ID", "None")
                 /\ UNCHANGED <<raw, parsed, seq, users_txt, session_user, json_files, waiting>>

\* main menu, choices 5 and 6: search by keyword, filter by tag
MainSearch ==
    /\ pc = "main_menu"
    /\ \/ MainShows("5", <<"search_notes_by_keyword">>,
                    IF SearchRows(notes, session_user[1], Strip(<<"N", " ">>)) # <<>>
                    THEN "table" ELSE "No notes found containing")
       \/ MainShows("6", <<"filter_notes_by_tag">>,
                    IF TagRows(notes, session_user[1], Strip(<<" ", "A">>)) # <<>>
                    THEN "table" ELSE "No notes found with tag")

\* main menu, choices 7, 8 and 9: the due views
MainDue ==
    /\ pc = "main_menu"
    /\ \E choice \in {"7", "8", "9"} :
        LET mode == CASE choice = "7" -> "today" [] choice = "8" -> "overdue"
                      [] choice = "9" -> "week"
        IN  MainShows(choice, <<"view_due_notes">>,
                      IF FilterDue(SelectNotes(notes, session_user[1]), mode, MainToday) # <<>>
                      THEN "table" ELSE "No notes found for")

\* main menu, choices 10 and 11: the imports, of the legacy text file when
\* there is one and of the file of the user's last export.  The import reads
\* its file; it is over when it reaches no call of add_note_to_db, and
\* otherwise it is in front of the SELECT of that call.
MainImport ==
    /\ pc = "main_menu"
    /\ \E txt \in BOOLEAN, there \in BOOLEAN :
        LET choice == IF txt THEN "10" ELSE "11"
            executed == <<IF txt THEN "import_txt_to_db" ELSE "import_json_to_db">>
            r == IF txt
                 THEN import_txt_to_db(notes, seq, session_user[1],
                                       IF there THEN SharedTxtFile ELSE Null)
                 ELSE import_json_to_db(notes, seq, session_user[1],
                                        FileOf(json_files, session_user[1]))
            adds == IF txt THEN import_txt_adds(IF there THEN SharedTxtFile ELSE Null)
                    ELSE import_json_adds(FileOf(json_files, session_user[1]))
        IN  IF adds = <<>>
            THEN MainAdds(choice, executed, r)
            ELSE /\ waiting' = waiting (+) SetToBag({[op |-> "import",
                                                      user |-> session_user[1],
                                                      passes |-> adds[1],
                                                      rec |-> MainCall(choice, executed, "", "None")]})
                 /\ pc' = "importing"
                 /\ call' = MainCall(choice, executed, "", "None")
                 /\ UNCHANGED <<raw, parsed, notes, seq, users_txt, session_user, json_files>>

\* the import calls add_note_to_db, which runs its SELECT, while an id is
\* left for the row
MainImportSelect ==
    /\ pc = "importing"
    /\ \E e \in Waiting("import") :
        /\ import_add(e).notes # notes => seq < MaxMainNotes
        /\ MainAddsAmong(waiting (-) SetToBag({e}), e.rec.choice, e.rec.executed,
                         import_add(e))

\* main menu, choice 12: the export starts with its SELECT
MainExport ==
    /\ pc = "main_menu"
    /\ waiting' = waiting (+) SetToBag({[op |-> "export", user |-> session_user[1],
                                         rows |-> export_select(notes, session_user[1]),
                                         opened |-> FALSE]})
    /\ pc' = "exporting"
    /\ call' = MainCall("12", <<"export_notes_to_json">>, "", "None")
    /\ UNCHANGED <<raw, parsed, notes, seq, users_txt, session_user, json_files>>

\* the export opens its file for writing, which empties it
MainExportOpen ==
    /\ pc = "exporting"
    /\ \E e \in Waiting("export") :
        /\ ~e.opened
        /\ json_files' = WriteFile(json_files, e.user, EmptyFile)
        /\ waiting' = (waiting (-) SetToBag({e})) (+) SetToBag({[e EXCEPT !.opened = TRUE]})
        /\ call' = MainCall("12", <<"export_notes_to_json">>, "", "None")
        /\ UNCHANGED <<raw, parsed, notes, seq, users_txt, session_user, pc>>

\* the export writes its list, closes the file and prints its message
MainExportWrite ==
    /\ pc = "exporting"
    /\ \E e \in Waiting("export") :
        /\ e.opened
        /\ json_files' = WriteFile(json_files, e.user,
                                   Overwritten(json_files[e.user],
                                               ExportedFile(ExportData(e.rows))))
        /\ waiting' = waiting (-) SetToBag({e})
        /\ pc' = "main_menu"
        /\ call' = MainCall("12", <<"export_notes_to_json">>, "Notes exported to", "None")
        /\ UNCHANGED <<raw, parsed, notes, seq, users_txt, session_user>>

\* main menu, choice 13, answered yes or no
MainExit ==
    /\ pc = "main_menu"
    /\ \E sure \in BOOLEAN :
        /\ pc' = IF sure THEN "exited" ELSE "main_menu"
        /\ call' = MainCall("13", <<>>, IF sure THEN "Goodbye, StarCoder!" ELSE "", "None")
        /\ UNCHANGED <<raw, parsed, notes, seq, users_txt, session_user, json_files, waiting>>

NextMain ==
    \/ MainStart \/ MainLogin \/ MainRegister \/ MainRegisterWrite \/ MainAuthExit
    \/ OtherRegister \/ OtherRegisterWrite
    \/ MainDueAlerts \/ MainWrite \/ MainInsert \/ MainView \/ MainEdit \/ MainEditWrite
    \/ MainDelete \/ MainDeleteEntry \/ MainSearch \/ MainDue \/ MainImport
    \/ MainImportSelect \/ MainExport \/ MainExportOpen \/ MainExportWrite
    \/ MainExit

SpecMain == Init /\ [][NextMain]_vars

(***************************************************************************)
(* Properties of parse_note.  The text is described here by positions      *)
(* (where the last marker starts, where a token starts and ends), not by   *)
(* the scans the parser performs.                                          *)
(***************************************************************************)

\* the marker "[due:" starts at position i of t
MarkerAt(t, i) ==
    /\ i >= 1
    /\ i + 4 <= Len(t)
    /\ t[i] = "[" /\ t[i + 1] = "d" /\ t[i + 2] = "u" /\ t[i + 3] = "e" /\ t[i + 4] = ":"

HasMarker(t) == \E i \in 1..Len(t) : MarkerAt(t, i)

MarkerCount(t) == Cardinality({i \in 1..Len(t) : MarkerAt(t, i)})

LastMarker(t) ==
    CHOOSE i \in 1..Len(t) : MarkerAt(t, i) /\ \A j \in (i + 1)..Len(t) : ~MarkerAt(t, j)

\* the text before the last marker (the whole text when there is none)
BeforeMarker(t) == IF HasMarker(t) THEN SubSeq(t, 1, LastMarker(t) - 1) ELSE t

\* the text after the last marker
AfterMarker(t) == SubSeq(t, LastMarker(t) + 5, Len(t))

\* positions where a whitespace-delimited token of p starts
TokenStarts(p) == {i \in 1..Len(p) : ~IsSpace(p[i]) /\ (i = 1 \/ IsSpace(p[i - 1]))}

\* the token of p that starts at position i
TokenAt(p, i) ==
    LET j == CHOOSE k \in i..Len(p) :
                 /\ \A m \in i..k : ~IsSpace(p[m])
                 /\ (k = Len(p) \/ IsSpace(p[k + 1]))
    IN  SubSeq(p, i, j)

\* the tokens of p starting at the positions S, by increasing position
RECURSIVE TokensAt(_, _)
TokensAt(p, S) ==
    IF S = {} THEN <<>>
    ELSE LET i == CHOOSE x \in S : \A y \in S : x <= y
         IN  <<TokenAt(p, i)>> \o TokensAt(p, S \ {i})

TagTokens(p) == TokensAt(p, {i \in TokenStarts(p) : p[i] = "#"})
BodyTokens(p) == TokensAt(p, {i \in TokenStarts(p) : p[i] # "#"})

\* words separated by exactly one space
RECURSIVE SpaceJoined(_)
SpaceJoined(ws) ==
    IF ws = <<>> THEN <<>>
    ELSE IF Len(ws) = 1 THEN ws[1]
    ELSE SpaceJoined(SubSeq(ws, 1, Len(ws) - 1)) \o <<" ">> \o ws[Len(ws)]

\* t without its leading and trailing whitespace
Trimmed(t) ==
    LET inked == {i \in 1..Len(t) : ~IsSpace(t[i])}
    IN  IF inked = {} THEN <<>>
        ELSE SubSeq(t, CHOOSE i \in inked : \A j \in inked : i <= j,
                       CHOOSE i \in inked : \A j \in inked : i >= j)

\* t without one trailing "]", when it has one
WithoutOneBracket(t) ==
    IF t # <<>> /\ t[Len(t)] = "]" THEN SubSeq(t, 1, Len(t) - 1) ELSE t

\* t without any of its trailing "]"
WithoutBrackets(t) ==
    LET other == {i \in 1..Len(t) : t[i] # "]"}
    IN  IF other = {} THEN <<>>
        ELSE SubSeq(t, 1, CHOOSE i \in other : \A j \in other : i >= j)

\* C1: the tags parse_note returns are exactly the whitespace-delimited tokens
\* of the text before the last "[due:" that start with "#", in their original
\* order and with duplicates kept.
C1_TagsAreHashTokens ==
    parsed # Null => parsed[1].tags = TagTokens(BeforeMarker(raw))

\* a text with a repeated tag before the marker and a "#" token after it
C1_Witness ==
    /\ parsed # Null
    /\ HasMarker(raw)
    /\ Len(parsed[1].tags) >= 2
    /\ parsed[1].tags[1] = parsed[1].tags[2]
    /\ \E i \in 1..Len(AfterMarker(raw)) : AfterMarker(raw)[i] = "#"

\* C2 as stated: the due date is the text after the last "[due:" with exactly
\* one trailing "]" removed if present, then trimmed of whitespace.
C2_OneBracketRemoved ==
    (parsed # Null /\ HasMarker(raw)) =>
        parsed[1].due_date = Some(Trimmed(WithoutOneBracket(AfterMarker(raw))))

\* C2 amended: the due date is the text after the last "[due:" with every
\* trailing "]" removed, then trimmed of whitespace; without a marker it is None.
C2_AllBracketsRemoved ==
    parsed # Null =>
        parsed[1].due_date =
            IF HasMarker(raw) THEN Some(Trimmed(WithoutBrackets(AfterMarker(raw))))
            ELSE Null

\* a text with two markers whose tail ends in two "]"
C2_Witness ==
    /\ parsed # Null
    /\ MarkerCount(raw) >= 2
    /\ Len(AfterMarker(raw)) >= 3
    /\ AfterMarker(raw)[Len(AfterMarker(raw))] = "]"
    /\ AfterMarker(raw)[Len(AfterMarker(raw)) - 1] = "]"
    /\ parsed[1].due_date = Some(<<"a">>)

\* C3 as stated: the due date is the text between the last "[due:" and the
\* next "]" after it, trimmed; what follows that "]" is not part of it.
C3_DueEndsAtNextBracket ==
    LET tail == AfterMarker(raw)
        closing == {i \in 1..Len(tail) : tail[i] = "]"}
        first == CHOOSE i \in closing : \A j \in closing : i <= j
    IN  (parsed # Null /\ HasMarker(raw) /\ closing # {}) =>
            parsed[1].due_date = Some(Trimmed(SubSeq(tail, 1, first - 1)))

\* C4: the note parse_note returns is the tokens of the text before the last
\* "[due:" that do not start with "#", in their order, joined by single
\* spaces; it has no leading or trailing whitespace and no token of it starts
\* with "#".
C4_BodyIsOtherTokens ==
    parsed # Null =>
        LET body == parsed[1].note
        IN  /\ body = SpaceJoined(BodyTokens(BeforeMarker(raw)))
            /\ body # <<>> => ~IsSpace(body[1]) /\ ~IsSpace(body[Len(body)])
            /\ \A i \in TokenStarts(body) : body[i] # "#"

\* a text whose body has two words around a tag, separated by a tab
C4_Witness ==
    /\ parsed # Null
    /\ \E i \in 1..Len(raw) : raw[i] = "\t"
    /\ parsed[1].tags # <<>>
    /\ Len(BodyTokens(BeforeMarker(raw))) = 2
    /\ \E i \in 1..Len(parsed[1].note) : parsed[1].note[i] = " "

(***************************************************************************)
(* Properties of view_due_notes.  Days are compared here field by field    *)
(* and counted forward one calendar day at a time, and a text is related   *)
(* to the day it denotes by writing the day out, not by parsing the text.  *)
(***************************************************************************)

\* day a is earlier than day b
Earlier(a, b) ==
    \/ a.y < b.y
    \/ a.y = b.y /\ a.m < b.m
    \/ a.y = b.y /\ a.m = b.m /\ a.d < b.d

SameDay(a, b) == a.y = b.y /\ a.m = b.m /\ a.d = b.d

\* the calendar day after a
NextDay(a) ==
    IF a.d < DaysInMonth(a.y, a.m) THEN [y |-> a.y, m |-> a.m, d |-> a.d + 1]
    ELSE IF a.m < 12 THEN [y |-> a.y, m |-> a.m + 1, d |-> 1]
    ELSE [y |-> a.y + 1, m |-> 1, d |-> 1]

\* the day n days after a
RECURSIVE DaysLater(_, _)
DaysLater(a, n) == IF n = 0 THEN a ELSE NextDay(DaysLater(a, n - 1))

\* the calendar days of the years the inputs lie in
CalendarDays ==
    {c \in [y : 2023..2027, m : 1..12, d : 1..31] : c.d <= DaysInMonth(c.y, c.m)}

DigitChars == <<"0", "1", "2", "3", "4", "5", "6", "7", "8", "9">>

TwoDigits(n) == <<DigitChars[(n \div 10) + 1], DigitChars[(n % 10) + 1]>>

FourDigits(n) == TwoDigits(n \div 100) \o TwoDigits(n % 100)

\* day c written YYYY-MM-DD
StrictForm(c) == FourDigits(c.y) \o <<"-">> \o TwoDigits(c.m) \o <<"-">> \o TwoDigits(c.d)

\* the ways of writing day c that strptime accepts for "%Y-%m-%d": the month
\* and the day with or without their leading zero, the day also blank-padded
AcceptedForms(c) ==
    LET months == {TwoDigits(c.m)} \cup
                  (IF c.m < 10 THEN {<<DigitChars[c.m + 1]>>} ELSE {})
        days   == {TwoDigits(c.d)} \cup
                  (IF c.d < 10 THEN {<<DigitChars[c.d + 1]>>, <<" ", DigitChars[c.d + 1]>>}
                   ELSE {})
    IN  {FourDigits(c.y) \o <<"-">> \o mm \o <<"-">> \o dd : mm \in months, dd \in days}

\* for each due text of the inputs, the days it denotes (one or none)
Denoted == [t \in DueTexts |-> {c \in CalendarDays : t \in AcceptedForms(c)}]

\* the due texts that are dates written strictly as YYYY-MM-DD
StrictTexts == {t \in DueTexts : \E c \in CalendarDays : t = StrictForm(c)}

\* the rows of the viewing user in the table the view c queried
Queried(c) == {i \in 1..Len(c.before) : c.before[i].user = c.user}

\* row i of the table is in the list the view produced
Listed(c, i) ==
    \E k \in 1..Len(c.filtered) :
        /\ c.filtered[k].id = c.before[i].id
        /\ c.filtered[k].note = c.before[i].note
        /\ c.filtered[k].tags = c.before[i].tags
        /\ c.filtered[k].due_date = c.before[i].due_date

\* the days denoted by the due date of row i
DueDays(c, i) ==
    IF c.before[i].due_date = Null THEN {} ELSE Denoted[c.before[i].due_date[1]]

\* row i is due on a day that the mode of view c selects
Selected(c, i) ==
    \E due \in DueDays(c, i) :
        \/ c.mode = "today" /\ SameDay(due, c.today)
        \/ c.mode = "overdue" /\ Earlier(due, c.today)
        \/ c.mode = "week" /\ ~Earlier(due, c.today)
                           /\ ~Earlier(DaysLater(c.today, 7), due)

\* C5: in mode "week" on day D a note is listed if and only if its due date
\* is a valid date d with D <= d <= D+7, both ends included.
C5_WeekWindow ==
    (call.name = "view_due_notes" /\ call.mode = "week") =>
        \A i \in Queried(call) :
            Listed(call, i) <=>
                \E due \in DueDays(call, i) :
                    /\ ~Earlier(due, call.today)
                    /\ ~Earlier(DaysLater(call.today, 7), due)

\* a week view across a month end that lists the note due on D+7 and leaves
\* out the note due on D+8
C5_Witness ==
    /\ call.name = "view_due_notes" /\ call.mode = "week"
    /\ Len(call.before) = 2 /\ Len(call.filtered) = 1
    /\ \E i, j \in Queried(call) :
          /\ Listed(call, i) /\ ~Listed(call, j)
          /\ DueDays(call, i) = {DaysLater(call.today, 7)}
          /\ DueDays(call, j) = {DaysLater(call.today, 8)}
          /\ DaysLater(call.today, 7).m # call.today.m

\* C6: a note with a valid due date d is listed in mode "today" if and only
\* if d = D and in mode "overdue" if and only if d < D, so that no note is in
\* both lists for the same D.
C6_TodayAndOverdue ==
    (call.name = "view_due_notes" /\ call.mode \in {"today", "overdue"}) =>
        \A i \in Queried(call) : \A due \in DueDays(call, i) :
            /\ call.mode = "today" => (Listed(call, i) <=> SameDay(due, call.today))
            /\ call.mode = "overdue" =>
                  /\ Listed(call, i) <=> Earlier(due, call.today)
                  /\ Listed(call, i) => ~SameDay(due, call.today)

\* an overdue view that lists the note due the day before and leaves out the
\* note due today
C6_Witness ==
    /\ call.name = "view_due_notes" /\ call.mode = "overdue"
    /\ \E i, j \in Queried(call) :
          /\ Listed(call, i) /\ ~Listed(call, j)
          /\ \E due \in DueDays(call, i) : SameDay(NextDay(due), call.today)
          /\ \E due \in DueDays(call, j) : SameDay(due, call.today)

\* C7 as stated: every note whose due date is absent, empty or not a strict
\* YYYY-MM-DD calendar date is excluded in every mode, without an error, and
\* the remaining notes are still classified.
C7_OnlyStrictDatesListed ==
    call.name = "view_due_notes" =>
        /\ call.result = "None"
        /\ \A i \in Queried(call) :
              IF call.before[i].due_date # Null /\ call.before[i].due_date[1] \in StrictTexts
              THEN Listed(call, i) <=> Selected(call, i)
              ELSE ~Listed(call, i)

\* C7 amended: every note whose due date is absent, empty or rejected by
\* strptime "%Y-%m-%d" is excluded in every mode, without an error, and the
\* remaining notes are still classified; strptime rejects what is not a
\* calendar day written as YYYY-MM-DD with the month and the day zero-padded
\* or not, or the day blank-padded.
C7_MalformedDatesSkipped ==
    call.name = "view_due_notes" =>
        /\ call.result = "None"
        /\ \A i \in Queried(call) :
              IF DueDays(call, i) # {}
              THEN Listed(call, i) <=> Selected(call, i)
              ELSE ~Listed(call, i)

\* a view that lists a note stored after a note whose due date is malformed
C7_Witness ==
    /\ call.name = "view_due_notes"
    /\ \E i, j \in Queried(call) :
          /\ i < j
          /\ call.before[i].due_date # Null
          /\ call.before[i].due_date[1] # <<>>
          /\ DueDays(call, i) = {}
          /\ Listed(call, j)

(***************************************************************************)
(* Properties of add_note_to_db and export_notes_to_json.                  *)
(***************************************************************************)

\* the persisted form of a tag list: its tags separated by commas, absent when empty
RECURSIVE CommaJoined(_)
CommaJoined(ts) ==
    IF Len(ts) = 1 THEN ts[1]
    ELSE CommaJoined(SubSeq(ts, 1, Len(ts) - 1)) \o <<",">> \o ts[Len(ts)]

PersistedTags(ts) == IF ts = <<>> THEN Null ELSE Some(CommaJoined(ts))

\* row r holds the same user, note text, tag string and due date as the
\* arguments of the add recorded in c, absent matching absent
SameNote(r, c) ==
    /\ r.user = c.user
    /\ r.note = c.note
    /\ r.tags = PersistedTags(c.tags)
    /\ r.due_date = c.due_date

HeldBefore(c) == \E i \in 1..Len(c.before) : SameNote(c.before[i], c)

\* c records a call of add_note_to_db that is over; its before is the table
\* that its last statement found
Added(c) == c.name = "add_note_to_db" /\ c.result # "waiting"

\* C8 as stated: add_note_to_db returns False and leaves the store unchanged
\* whenever the store already holds a record of the user with the identical
\* note, tag string (an empty tag list being stored as absent) and due date.
C8_DuplicateReturnsFalse ==
    (Added(call) /\ HeldBefore(call)) =>
        (call.result = "False" /\ notes = call.before)

\* C9 as stated: add_note_to_db completes with a boolean and never raises;
\* when no identical record exists it returns True and the store gains exactly
\* the one record, every other record unchanged.
C9_AddReturnsBoolean ==
    Added(call) =>
        /\ call.result \in {"True", "False"}
        /\ ~HeldBefore(call) =>
              /\ call.result = "True"
              /\ Len(notes) = Len(call.before) + 1
              /\ SubSeq(notes, 1, Len(call.before)) = call.before
              /\ SameNote(notes[Len(notes)], call)

NoComma(tags) == \A i \in 1..Len(tags) : \A k \in 1..Len(tags[i]) : tags[i][k] # ","

\* the export that starts when an add has ended, by the same user, holds
\* the added note with its tag list rebuilt: as the last object when the add
\* inserted a row
RoundTrips(c, e) ==
    LET item == [note |-> c.note, tags |-> c.tags, due_date |-> c.due_date]
    IN  /\ \E i \in 1..Len(e.data) : e.data[i] = item
        /\ Len(notes) > Len(c.before) => e.data[Len(e.data)] = item

AddThenExport ==
    /\ Added(call)
    /\ call'.name = "export_notes_to_json"
    /\ call'.stage = "select"
    /\ call'.user = call.user

\* C10 as stated: for every note added with a tag list whose tags contain no
\* comma, the export that follows rebuilds the same tag list in the same
\* order, with the same note text and due date.
C10_RoundTripNoComma ==
    [][(AddThenExport /\ NoComma(call.tags)) => RoundTrips(call, call')]_vars

\* C10 amended: the same, for every tag list whose tags contain no comma other
\* than the list whose only tag is the empty string.
C10_RoundTrip ==
    [][(AddThenExport /\ NoComma(call.tags) /\ call.tags # <<<<>>>>)
           => RoundTrips(call, call')]_vars

\* an export of two notes of one user has ended: one with two tags, one
\* without tags
C10_Witness ==
    /\ call.name = "export_notes_to_json"
    /\ call.stage = "write"
    /\ Len(call.data) = 2
    /\ \E i \in 1..2 : Len(call.data[i].tags) = 2 /\ call.data[i].tags[1] # call.data[i].tags[2]
    /\ \E i \in 1..2 : call.data[i].tags = <<>>

(***************************************************************************)
(* Further properties of view_due_notes.                                   *)
(***************************************************************************)

\* row r of the list is row i of the table, column by column
SameRow(r, t) ==
    r.id = t.id /\ r.note = t.note /\ r.tags = t.tags /\ r.due_date = t.due_date

\* C11: the list view_due_notes produces is a subsequence of the rows it
\* queried: the matching rows of the viewing user, in the order of the table,
\* each at most once and none altered.
C11_FilteredIsSubsequence ==
    call.name = "view_due_notes" =>
        \E f \in [1..Len(call.filtered) -> 1..Len(call.before)] :
            /\ \A k \in 1..Len(call.filtered) :
                  /\ f[k] \in Queried(call)
                  /\ SameRow(call.filtered[k], call.before[f[k]])
            /\ \A j, k \in 1..Len(call.filtered) : j < k => f[j] < f[k]

\* a view that lists two rows with different due dates
C11_Witness ==
    /\ call.name = "view_due_notes"
    /\ Len(call.filtered) = 2
    /\ call.filtered[1].due_date # call.filtered[2].due_date
    /\ call.filtered[1].id < call.filtered[2].id

(***************************************************************************)
(* Plain texts: parse_note on a text without tag and without marker.       *)
(***************************************************************************)

\* a text with no "[due:" and no token starting with "#"
PlainText(t) == ~HasMarker(t) /\ \A i \in TokenStarts(t) : t[i] # "#"

\* t with its outer whitespace removed and every inner run of whitespace
\* replaced by one space, written character by character
RECURSIVE CollapsedFrom(_, _)
CollapsedFrom(t, i) ==
    IF i > Len(t) THEN <<>>
    ELSE IF ~IsSpace(t[i]) THEN <<t[i]>> \o CollapsedFrom(t, i + 1)
    ELSE IF /\ i > 1 /\ ~IsSpace(t[i - 1])
            /\ \E j \in (i + 1)..Len(t) : ~IsSpace(t[j])
         THEN <<" ">> \o CollapsedFrom(t, i + 1)
    ELSE CollapsedFrom(t, i + 1)

Collapsed(t) == CollapsedFrom(t, 1)

\* C12 as stated: parse_note always returns; the empty string gives note "",
\* tags [] and due_date None; a text with no tag and no due marker is
\* returned as the note, with tags [] and due_date None.
C12_PlainTextReturned ==
    parsed # Null =>
        /\ DOMAIN parsed[1] = {"note", "tags", "due_date"}
        /\ PlainText(raw) =>
               parsed[1] = [note |-> raw, tags |-> <<>>, due_date |-> Null]

\* C12 amended: parse_note always returns; the empty string gives note "",
\* tags [] and due_date None; a text with no tag and no due marker gives
\* tags [], due_date None and, as the note, the text with its outer
\* whitespace removed and each inner run of whitespace replaced by one space.
C12_PlainTextNormalised ==
    parsed # Null =>
        /\ DOMAIN parsed[1] = {"note", "tags", "due_date"}
        /\ raw = <<>> =>
               parsed[1] = [note |-> <<>>, tags |-> <<>>, due_date |-> Null]
        /\ PlainText(raw) =>
               parsed[1] = [note |-> Collapsed(raw), tags |-> <<>>, due_date |-> Null]

\* a plain text of two words that are two blanks apart has been parsed
C12_Witness ==
    /\ parsed # Null
    /\ PlainText(raw)
    /\ \E i \in 1..(Len(raw) - 1) : IsSpace(raw[i]) /\ IsSpace(raw[i + 1])
    /\ Cardinality(TokenStarts(raw)) = 2
    /\ parsed[1].note # raw

(***************************************************************************)
(* Properties of build_note_from_json.                                     *)
(***************************************************************************)

\* the parts of a rebuilt text, in order: note, comma-joined tags, marker
BuildParts(data) ==
    <<data.note,
      IF data.tags = <<>> THEN <<>> ELSE CommaJoined(data.tags),
      IF data.due_date = Null \/ data.due_date = Some(<<>>) THEN <<>>
      ELSE <<"[", "d", "u", "e", ":">> \o data.due_date[1] \o <<"]">> >>

\* C13: build_note_from_json returns the non-empty parts among the note
\* text, the comma-joined tags and the marker "[due:<due_date>]", in that
\* order, separated by exactly one space each.
C13_PartsOneSpaceApart ==
    call.name = "build_note_from_json" =>
        call.result = SpaceJoined(SelectSeq(BuildParts(call.data), LAMBDA p : p # <<>>))

(***************************************************************************)
(* Properties of the imports.                                              *)
(***************************************************************************)

\* C14: for every non-blank line of the legacy text file, the note, tags
\* and due_date import_txt_to_db passes to add_note_to_db are those of
\* parse_note applied to the whole line.
C14_ImportPassesParsedLine ==
    call.name = "import_txt_to_db" =>
        \A k \in 1..Len(call.passed) :
            LET p == call.passed[k]
            IN  [note |-> p.note, tags |-> p.tags, due_date |-> p.due_date]
                    = parse_note(p.line)

\* C18: when the JSON import file does not hold valid JSON, import_json_to_db
\* prints "Invalid JSON format." and returns, and the store is what it was:
\* no record inserted, updated or deleted.
C18_InvalidJsonLeavesStore ==
    (/\ call.name = "import_json_to_db"
     /\ call.kind \in {"invalid", "undecodable"}) =>
        /\ call.printed = "Invalid JSON format."
        /\ call.result = "None"
        /\ Len(notes) = Len(call.before)
        /\ \A i \in 1..Len(notes) : notes[i] = call.before[i]

(***************************************************************************)
(* Properties of export_notes_to_json.                                     *)
(***************************************************************************)

\* the list ts is the text s cut at its commas
CutAtCommas(ts, s) == Len(ts) >= 1 /\ NoComma(ts) /\ CommaJoined(ts) = s

\* the file holds the list data as export_notes_to_json writes it
FileHolds(file, data) ==
    /\ file.kind = "json"
    /\ file.value.t = "list"
    /\ Len(file.value.v) = Len(data)
    /\ \A k \in 1..Len(data) :
          LET object == file.value.v[k]
          IN  /\ object.t = "dict"
              /\ Len(object.v) = 3
              /\ Get(object, KeyNote, JNull) = JStr(data[k].note)
              /\ Get(object, KeyTags, JNull)
                     = JList([j \in 1..Len(data[k].tags) |-> JStr(data[k].tags[j])])
              /\ Get(object, KeyDue, JStr(<<>>))
                     = IF data[k].due_date = Null THEN JNull ELSE JStr(data[k].due_date[1])

\* C15: export_notes_to_json writes one object per record of the user, in
\* the order of the records, with note and due_date copied (absent staying
\* absent) and tags the persisted tag string cut at its commas, or the empty
\* list when that string is empty or absent; no "#" is added or removed.
\* The records are those its SELECT finds, the list is built from them
\* whatever is written to the store afterwards, no step of the export
\* changes the store, and the file holds the list when the export ends,
\* unless another export of the user has written the file since this one
\* opened it.
C15_ExportCopiesRecords ==
    call.name = "export_notes_to_json" =>
        /\ notes = call.before
        /\ call.stage = "select" =>
              /\ Len(call.rows) = Cardinality(Queried(call))
              /\ \A i \in Queried(call) :
                    LET row == call.rows[Cardinality({j \in Queried(call) : j <= i})]
                    IN  /\ row.note = call.before[i].note
                        /\ row.tags = call.before[i].tags
                        /\ row.due_date = call.before[i].due_date
        /\ Len(call.data) = Len(call.rows)
        /\ \A k \in 1..Len(call.rows) :
              LET row  == call.rows[k]
                  item == call.data[k]
              IN  /\ item.note = row.note
                  /\ item.due_date = row.due_date
                  /\ IF row.tags = Null \/ row.tags = Some(<<>>)
                     THEN item.tags = <<>>
                     ELSE CutAtCommas(item.tags, row.tags[1])
        /\ (call.stage = "write" /\ call.found = Some(EmptyFile)) =>
              FileHolds(json_files[call.user], call.data)

\* an export has ended and written the file: a record with two "#" tags and
\* a due date, next to a record of the same user whose tag string is empty
\* or absent
C15_Witness ==
    /\ call.name = "export_notes_to_json"
    /\ call.stage = "write"
    /\ call.found = Some(EmptyFile)
    /\ Len(call.rows) = 2
    /\ \E i, j \in 1..2 :
          /\ call.rows[i].tags = Some(<<"#", "a", ",", "#", "b">>)
          /\ call.rows[i].due_date # Null
          /\ call.rows[j].tags \in {Null, Some(<<>>)}
          /\ call.rows[j].due_date = Null

(***************************************************************************)
(* Properties of edit_note_by_id and delete_note_by_id.                    *)
(***************************************************************************)

\* the positions of the table c found whose row has the id and the user of c
Named(c) ==
    {i \in 1..Len(c.before) : c.before[i].id = c.note_id /\ c.before[i].user = c.user}

\* c records a call of edit_note_by_id that got its three answers and
\* returned; its before is the table the UPDATE found
Answered(c) == c.name = "edit_note_by_id" /\ Len(c.answers) = 3

\* c records the start of a call of edit_note_by_id, up to its return or its
\* first prompt; its before is the table the SELECT found
Started(c) == c.name = "edit_note_by_id" /\ c.answers = <<>>

NonBlank(t) == \E i \in 1..Len(t) : ~IsSpace(t[i])

\* C16: after edit_note_by_id on an existing note with non-blank answers for
\* note, tags and due date, the record holds the three texts entered (outer
\* whitespace aside) as note, tags and due_date, and the success message is
\* printed.
C16_EditStoresAnswers ==
    (/\ Answered(call)
     /\ Named(call) # {}
     /\ \A k \in 1..3 : NonBlank(call.answers[k])) =>
        /\ call.printed = "Note updated successfully"
        /\ \A i \in Named(call) :
              /\ notes[i].note = Trimmed(call.answers[1])
              /\ notes[i].tags = Some(Trimmed(call.answers[2]))
              /\ notes[i].due_date = Some(Trimmed(call.answers[3]))

\* C17: delete_note_by_id removes exactly the record with that id and that
\* user and leaves every other record as it was, in place; when there is no
\* such record the store is unchanged; in both cases nothing is raised and
\* the "Deleted note ID" message is printed.
C17_DeleteRemovesNamedRow ==
    call.name = "delete_note_by_id" =>
        LET kept == (1..Len(call.before)) \ Named(call)
        IN  /\ call.result = "None"
            /\ call.printed = "Deleted note ID"
            /\ Len(notes) = Cardinality(kept)
            /\ \A i \in kept : notes[Cardinality({j \in kept : j <= i})] = call.before[i]
            /\ Named(call) = {} => notes = call.before

\* a delete that removed the first of two records, the other one holding
\* another user's note
C17_Witness ==
    /\ call.name = "delete_note_by_id"
    /\ Len(call.before) = 2
    /\ Named(call) = {1}
    /\ call.before[2].user # call.user
    /\ notes = <<call.before[2]>>

\* C19: edit_note_by_id for an id that has no record of that user prints
\* "Note not found.", shows no prompt and leaves the store unchanged.
C19_EditNotFound ==
    (Started(call) /\ Named(call) = {}) =>
        /\ call.printed = "Note not found."
        /\ call.asked = 0
        /\ call.result = "None"
        /\ notes = call.before

\* an edit naming the id of a record that belongs to the other user
C19_Witness ==
    /\ Started(call)
    /\ Named(call) = {}
    /\ \E i \in 1..Len(call.before) :
          call.before[i].id = call.note_id /\ call.before[i].user # call.user
    /\ call.printed = "Note not found."

(***************************************************************************)
(* Properties of register_user.                                            *)
(***************************************************************************)

\* C20: register_user with an empty username returns None, prints "Please
\* enter a username and a password." and writes no line to users.txt.
C20_EmptyUsernameRejected ==
    (call.name = "register_user" /\ call.printed # "" /\ ~NonBlank(call.typed_name)) =>
        /\ call.result = Null
        /\ call.printed = "Please enter a username and a password."
        /\ users_txt = call.before

\* C21: edit_note_by_id keeps the current value of every field whose answer
\* is left blank; when the three answers are blank the record is the same
\* before and after the edit, absent tags and an absent due date staying
\* absent.
C21_BlankKeepsField ==
    (Answered(call) /\ Named(call) # {}) =>
        \A i \in Named(call) :
            /\ ~NonBlank(call.answers[1]) => notes[i].note = call.before[i].note
            /\ ~NonBlank(call.answers[2]) => notes[i].tags = call.before[i].tags
            /\ ~NonBlank(call.answers[3]) => notes[i].due_date = call.before[i].due_date
            /\ (\A k \in 1..3 : ~NonBlank(call.answers[k])) => notes[i] = call.before[i]

(***************************************************************************)
(* Properties of the store as a whole.                                     *)
(***************************************************************************)

\* rows i and j of the table hold the same note of the same user
Twins(table, i, j) ==
    /\ table[i].user = table[j].user
    /\ table[i].note = table[j].note
    /\ table[i].tags = table[j].tags
    /\ table[i].due_date = table[j].due_date

\* C22: the store never holds two records of one user with identical note
\* text, identical tag string and identical due date, absent counting as
\* identical to absent.
C22_NoTwinRecords ==
    \A i, j \in 1..Len(notes) : i # j => ~Twins(notes, i, j)

(***************************************************************************)
(* User isolation.                                                         *)
(***************************************************************************)

\* the records of the table that do not belong to user u, in table order
RecordsOfOthers(table, u) == SelectSeq(table, LAMBDA r : r.user # u)

\* the row s of a rendered list is a record of user u in the table
ShowsOwn(s, table, u) ==
    \E i \in 1..Len(table) :
        /\ table[i].user = u
        /\ table[i].id = s.id
        /\ table[i].note = s.note
        /\ table[i].tags = s.tags
        /\ table[i].due_date = s.due_date

\* the lists an operation renders or writes out
Rendered(c) ==
    IF c.name \in {"view_note_from_db", "search_notes_by_keyword", "filter_notes_by_tag"}
    THEN c.shown
    ELSE IF c.name = "view_due_notes" THEN c.filtered
    ELSE <<>>

\* C23: whatever step of an operation a user u takes (add, view, search,
\* filter by tag, due views, edit, delete, import, export), with whatever
\* id, the records of every other user are the same after the step as
\* before it, none added, changed or removed; every row displayed is a
\* record of u; and the list an export builds holds one object per record
\* of u that its SELECT finds and nothing else.
C23_UserIsolation ==
    call.name # "none" =>
        /\ RecordsOfOthers(notes, call.user) = RecordsOfOthers(call.before, call.user)
        /\ \A k \in 1..Len(Rendered(call)) :
              ShowsOwn(Rendered(call)[k], call.before, call.user)
        /\ (call.name = "export_notes_to_json" /\ call.stage = "select") =>
              /\ Len(call.data) = Cardinality(Queried(call))
              /\ \A i \in Queried(call) :
                    LET item == call.data[Cardinality({j \in Queried(call) : j <= i})]
                    IN  item.note = call.before[i].note
                            /\ item.due_date = call.before[i].due_date

\* a user who holds a record names the id of another user's note in an edit
\* or a delete, and the note is there afterwards as it was
C23_Witness ==
    /\ call.name \in {"edit_note_by_id", "delete_note_by_id"}
    /\ \E i, j \in 1..Len(call.before) :
          /\ call.before[i].id = call.note_id
          /\ call.before[i].user # call.user
          /\ call.before[j].user = call.user
    /\ notes = call.before

(***************************************************************************)
(* Re-import of an export.                                                 *)
(***************************************************************************)

\* C24: when a user exports and then imports the exported file with no
\* operation in between, the import completes, every exported item being
\* recognised as a duplicate, and the store holds exactly the records it
\* held before the import, whatever the store holds (notes without tags or
\* without a due date included).
C24_ReimportChangesNothing ==
    (/\ call.name = "import_json_to_db"
     /\ "exported" \in DOMAIN call
     /\ call.result # "waiting") =>
        /\ call.result = "None"
        /\ notes = call.before

(***************************************************************************)
(* The delimiter of the persisted tag string.                              *)
(***************************************************************************)

\* the tags typed in an answer "t1, t2, ...": the pieces between its commas
\* with outer whitespace removed, blank pieces left out
TypedTags(answer) ==
    LET pieces == SplitOn(answer, ",")
    IN  SelectSeq([k \in 1..Len(pieces) |-> Trimmed(pieces[k])], LAMBDA p : p # <<>>)

\* the stored tag string, cut at its commas, gives the tags one by one,
\* each as given or with the "#" the program puts in front
SplitsInto(stored, tags) ==
    /\ stored # Null
    /\ LET ts == SplitOn(stored[1], ",")
       IN  /\ Len(ts) = Len(tags)
           /\ \A k \in 1..Len(ts) : ts[k] = tags[k] \/ ts[k] = <<"#">> \o tags[k]

\* C25: after add_note_to_db with tags, and after edit_note_by_id with a
\* tags answer, the persisted tag string of the note cut at its commas (as
\* export_notes_to_json cuts it) gives exactly the tags of that write, one
\* list element per tag.
C25_OneDelimiter ==
    /\ (/\ Added(call)
        /\ call.tags # <<>>
        /\ Len(notes) > Len(call.before)) =>
            SplitsInto(notes[Len(notes)].tags, call.tags)
    /\ (/\ Answered(call)
        /\ Named(call) # {}
        /\ TypedTags(call.answers[2]) # <<>>) =>
            \A i \in Named(call) :
                SplitsInto(notes[i].tags, TypedTags(call.answers[2]))

(***************************************************************************)
(* Properties of main.                                                     *)
(***************************************************************************)

\* the credential line users.txt holds for a name and a password typed
CredentialLine(typed_name, typed_password) ==
    Trimmed(typed_name) \o <<":">> \o hash_password(Trimmed(typed_password))

\* the lines of users.txt, none while the file does not exist
CredentialLines(file) == IF file = Null THEN <<>> ELSE file[1]

\* the name and password typed are a stored credential
StoredCredential(file, typed_name, typed_password) ==
    \E i \in 1..Len(CredentialLines(file)) :
        CredentialLines(file)[i] = CredentialLine(typed_name, typed_password)

\* the name typed is already registered
RegisteredName(file, typed_name) ==
    \E i \in 1..Len(CredentialLines(file)) :
        LET line == CredentialLines(file)[i]
            name == Trimmed(typed_name)
        IN  Len(line) > Len(name) /\ SubSeq(line, 1, Len(name) + 1) = name \o <<":">>

\* a step of main executes a note operation only while a user is logged in
GateStep ==
    (call'.name = "main" /\ call'.executed # <<>>) =>
        session_user # Null /\ pc \notin {"login_menu", "exited", "crashed"}

\* the session user is set only by a login that typed a stored credential
\* or by a registration that appended the credential line of a new name
EntryStep ==
    (session_user = Null /\ session_user' # Null) =>
        /\ call'.name = "main"
        /\ session_user' = Some(Trimmed(call'.typed_name))
        /\ \/ /\ call'.choice = "login"
              /\ StoredCredential(users_txt, call'.typed_name, call'.typed_password)
              /\ users_txt' = users_txt
           \/ /\ call'.choice = "register"
              /\ ~RegisteredName(users_txt, call'.typed_name)
              /\ CredentialLines(users_txt') =
                     Append(CredentialLines(users_txt),
                            CredentialLine(call'.typed_name, call'.typed_password))

\* a login with no stored credential, or a registration of a registered
\* name, shows the login menu again and leaves the session user None
FailureStep ==
    /\ (pc = "login_menu" /\ call'.name = "main" /\ call'.choice = "login"
        /\ ~StoredCredential(users_txt, call'.typed_name, call'.typed_password)) =>
            pc' = "login_menu" /\ session_user' = Null
    /\ (pc = "login_menu" /\ call'.name = "main" /\ call'.choice = "register"
        /\ RegisteredName(users_txt, call'.typed_name)) =>
            pc' = "login_menu" /\ session_user' = Null /\ users_txt' = users_txt

\* C26: in every run of main no note operation (add, view, edit, delete,
\* search, filter, due views, import, export, due alerts) is executed while
\* the session user is None; the session user becomes non-None only through
\* a login that matched a stored username and password hash or a
\* registration that wrote a new credential line; and a failed login or
\* registration returns to the login menu with the session user still None.
C26_AuthenticationGate == [][GateStep /\ EntryStep /\ FailureStep]_vars

====
